---------------------------- MODULE Spec2Model ----------------------------
(***************************************************************************)
(* Model of kampanyatakvim's AnnouncementModal and AdminModal components   *)
(* (src/unnamed/part_000): the CSV export/import handlers, the IP access   *)
(* table handlers and the unread-announcement effect.                      *)
(*                                                                         *)
(* Text is a sequence of characters; a character is a one-element string.  *)
(* A multi-letter element ("Title", "High") stands for a run of letters    *)
(* none of which is a comma, a quote or white space.  Time is counted in   *)
(* units of 12 hours, so that a calendar day is DayLen = 2 units and a     *)
(* time-zone offset of one unit is 12 hours.                               *)
(***************************************************************************)
EXTENDS Integers, Sequences, FiniteSets, TLC

(* ------------------------------ bounds -------------------------------- *)
MaxEvents == 2
MaxTitleLen == 3
MaxBulkCalls == 2
MaxDesignerIpLen == 1
MaxBatch == 2
MaxIpCalls == 3
MaxNow == 3
MaxMarkCalls == 3
MaxImportLines == 3
MaxUserCalls == 2
MaxClock == 6
MaxDeleteAllCalls == 2
MaxAuthCalls == 2
MaxDeleteClicks == 1

(* ----------------------------- constants ------------------------------ *)
\* one calendar day (date-fns isToday / format 'yyyy-MM-dd'), in time units
DayLen == 2

QUOTE == "\""
COMMA == ","
NL == "\n"
SP == " "

\* JavaScript's undefined, for identifiers and for text
UNDEF == "undefined"
UndefText == <<"undefined">>
EmptyText == <<>>

VARIABLES
    \* AdminModal props (import/export)
    events, departments, users,
    \* environment: the time zone of the browser, in units (12 h)
    tzOffset,
    \* the file written by handleExportCSV (the Blob's content), UndefText before
    csvContent,
    \* AdminModal state
    importText, error,
    \* the number of handleImportCSV invocations waiting at line 536
    bulkPending,
    \* the arguments of the onBulkAddEvents calls made so far
    bulkCalls,
    \* AdminModal prop: the access table
    ipConfig,
    \* AdminModal state: the access forms
    newDesignerIp, newMapIp, newMapDeptId,
    \* onUpdateIpConfig: the number of calls and the last argument
    ipUpdateCount, ipUpdateArg,
    \* environment: the store refuses the writes of the access table
    ipWriteFails,
    \* environment: the parent renders AdminModal with a new table some time
    \* after onUpdateIpConfig returned; the tables it has yet to render with
    ipAsync, ipPending,
    \* AdminModal state: the user form
    newName, newEmail, selectedEmoji, avatarFile, isUploading,
    \* handleAddSubmit waiting for the upload (lines 340-341): what it will
    \* pass to onAddUser, at most one
    uploadPending,
    \* the arguments of the onAddUser calls made so far
    addUserCalls,
    \* AdminModal state: the department form
    newDeptName,
    \* the arguments of the onAddDepartment calls made so far
    addDeptCalls,
    \* the visitor the application classified last: address and access tier
    visitorIp, visitorTier,
    \* the clock (Date.now()), in units
    now,
    \* the persisted announcements: id -> [id, createdAt, readBy]
    annStore,
    \* acknowledgment writes on their way to the store
    pendingWrites,
    \* per browser session: AnnouncementModal is mounted and open, its props
    \* currentUserId and announcements, its state isAddMode
    isOpen, currentUserId, announcements, isAddMode,
    \* per browser session: the rows last rendered highlighted and with the
    \* 'YENI' badge
    rowNew, badgeNew,
    \* the onMarkAsRead calls made so far, in order: [session, id]
    markCalls,
    \* AdminModal state: the administrator signed in (FirebaseUser | null)
    authUser,
    \* the values Firebase has yet to call the onAuthStateChanged listener with
    authEvents,
    \* the number of sign-in and sign-out requests made so far
    authCalls,
    \* AdminModal state: the delete-all confirmation
    isDeleteConfirming,
    \* the expiry times of the setTimeout timers that have not fired
    deleteTimers,
    \* the clock of the timers, in seconds, and the time of the last click
    \* that set isDeleteConfirming
    clock, armedAt,
    \* the number of onDeleteAllEvents calls made so far
    deleteAllCalls,
    \* the onDeleteUser, onDeleteEvent and onDeleteDepartment calls made so far
    deleteCalls

\* import/export: everything but the shared error message
csvVars == <<events, departments, users, tzOffset, csvContent, importText,
             bulkPending, bulkCalls>>

accVars == <<ipConfig, newDesignerIp, newMapIp, newMapDeptId, ipUpdateCount,
             ipUpdateArg, ipWriteFails, ipAsync, ipPending>>

formVars == <<newName, newEmail, selectedEmoji, avatarFile, isUploading,
              uploadPending, addUserCalls, newDeptName, addDeptCalls>>

visitorVars == <<visitorIp, visitorTier>>

annVars == <<now, annStore, pendingWrites, isOpen, currentUserId, announcements,
             isAddMode, rowNew, badgeNew, markCalls>>

gateVars == <<authUser, authEvents, authCalls, isDeleteConfirming, deleteTimers,
              clock, armedAt, deleteAllCalls, deleteCalls>>

vars == <<csvVars, error, accVars, visitorVars, annVars, formVars, gateVars>>

(* ======================= text helpers (JavaScript) ===================== *)

IsSpace(c) == c \in {SP, NL}

RECURSIVE TrimStart(_)
\* String.prototype.trimStart
TrimStart(s) ==
    IF s # <<>> /\ IsSpace(Head(s)) THEN TrimStart(Tail(s)) ELSE s

RECURSIVE TrimEnd(_)
\* String.prototype.trimEnd
TrimEnd(s) ==
    IF s # <<>> /\ IsSpace(s[Len(s)]) THEN TrimEnd(SubSeq(s, 1, Len(s) - 1)) ELSE s

\* String.prototype.trim
Trim(s) == TrimEnd(TrimStart(s))

RECURSIVE SplitAcc(_, _, _)
SplitAcc(s, sep, cur) ==
    IF s = <<>> THEN <<cur>>
    ELSE IF Head(s) = sep THEN <<cur>> \o SplitAcc(Tail(s), sep, <<>>)
    ELSE SplitAcc(Tail(s), sep, Append(cur, Head(s)))

\* String.prototype.split(sep) for a one-character separator
Split(s, sep) == SplitAcc(s, sep, <<>>)

RECURSIVE DoubleQuotes(_)
\* s.replace(/"/g, '""')
DoubleQuotes(s) ==
    IF s = <<>> THEN <<>>
    ELSE IF Head(s) = QUOTE THEN <<QUOTE, QUOTE>> \o DoubleQuotes(Tail(s))
    ELSE <<Head(s)>> \o DoubleQuotes(Tail(s))

\* s.replace(/^"|"$/g, ''): one leading and one trailing quote are removed
StripQuotes(s) ==
    LET a == IF s # <<>> /\ Head(s) = QUOTE THEN Tail(s) ELSE s
    IN  IF a # <<>> /\ a[Len(a)] = QUOTE THEN SubSeq(a, 1, Len(a) - 1) ELSE a

RECURSIVE CollapseQuotes(_)
\* s.replace(/""/g, '"'): left to right, non-overlapping
CollapseQuotes(s) ==
    IF Len(s) >= 2 /\ s[1] = QUOTE /\ s[2] = QUOTE
    THEN <<QUOTE>> \o CollapseQuotes(SubSeq(s, 3, Len(s)))
    ELSE IF s = <<>> THEN <<>>
    ELSE <<Head(s)>> \o CollapseQuotes(Tail(s))

\* the clean-up parseCSVLine applies to every field (lines 497 and 501)
CleanField(s) == CollapseQuotes(StripQuotes(s))

\* "a comma outside quotes ends the field" (line 496)
IsFieldBoundaryAlways(c, inQuotes) == c = COMMA

IsFieldBoundary(c, inQuotes) == c = COMMA /\ ~inQuotes

RECURSIVE ParseScan(_, _, _, _, _)
\* the for loop of parseCSVLine: i is the 1-based position, start the 1-based
\* first character of the current field
ParseScan(line, i, start, inQuotes, result) ==
    IF i > Len(line)
    THEN Append(result, CleanField(SubSeq(line, start, Len(line))))
    ELSE IF line[i] = QUOTE
    THEN ParseScan(line, i + 1, start, ~inQuotes, result)
    ELSE IF IsFieldBoundary(line[i], inQuotes)
    THEN ParseScan(line, i + 1, i + 1, inQuotes,
                   Append(result, CleanField(SubSeq(line, start, i - 1))))
    ELSE ParseScan(line, i + 1, start, inQuotes, result)

parseCSVLine(line) == ParseScan(line, 1, 1, FALSE, <<>>)

(* =========================== dates (date-fns) ========================= *)

\* the local calendar day an instant falls on
LocalDay(t, off) == (t + off) \div DayLen

DigitChar == <<"0", "1", "2", "3", "4", "5", "6", "7", "8", "9">>

\* format(date, 'yyyy-MM-dd'): the local calendar day, as text.  The model
\* writes day n as the single digit n (days 0..9).
FormatDate(t, off) == <<DigitChar[LocalDay(t, off) + 1]>>

IsDateText(s) == Len(s) = 1 /\ \E n \in 1..10 : DigitChar[n] = s[1]

\* new Date(dateStr): a date-only ISO string is midnight UTC of that day;
\* anything else (undefined included) is an Invalid Date
ParseDate(s) ==
    IF IsDateText(s)
    THEN [valid |-> TRUE,
          time |-> DayLen * ((CHOOSE n \in 1..10 : DigitChar[n] = s[1]) - 1)]
    ELSE [valid |-> FALSE, time |-> 0]

(* ======================== reference resolution ======================== *)

\* the identifier is written when nothing is found
NameOfIdOrId(list, id) ==
    IF \E i \in 1..Len(list) : list[i].id = id
    THEN list[CHOOSE i \in 1..Len(list) : list[i].id = id].name
    ELSE <<id>>

\* list.find(x => x.id === id)?.name || ''
NameOfId(list, id) ==
    IF \E i \in 1..Len(list) : list[i].id = id
    THEN list[CHOOSE i \in 1..Len(list) :
                list[i].id = id /\ \A j \in 1..(i - 1) : list[j].id # id].name
    ELSE EmptyText

\* the last entity of the name is taken
IdOfNameLast(list, name) ==
    IF \E i \in 1..Len(list) : list[i].name = name
    THEN list[CHOOSE i \in 1..Len(list) :
                list[i].name = name /\ \A j \in (i + 1)..Len(list) : list[j].name # name].id
    ELSE UNDEF

\* list.find(x => x.name === name)?.id
IdOfName(list, name) ==
    IF \E i \in 1..Len(list) : list[i].name = name
    THEN list[CHOOSE i \in 1..Len(list) :
                list[i].name = name /\ \A j \in 1..(i - 1) : list[j].name # name].id
    ELSE UNDEF

(* ============================= the codec ============================== *)

\* the keys of URGENCY_CONFIGS
UrgencyLevels == {"Very High", "High", "Medium", "Low"}

HeaderLine == <<"Title", COMMA, "Date", COMMA, "Urgency", COMMA,
                "Description", COMMA, "Department", COMMA, "Assignee">>

Quoted(s) == <<QUOTE>> \o DoubleQuotes(s) \o <<QUOTE>>

\* the line handleExportCSV writes for one event (lines 449-458), without
\* its final line break
ExportLine(ev, depts, usrs, off) ==
    LET dept == NameOfId(depts, ev.departmentId)
        user == NameOfId(usrs, ev.assigneeId)
        dateStr == FormatDate(ev.date, off)
        desc == IF ev.description = UndefText THEN EmptyText ELSE ev.description
    IN  Quoted(ev.title) \o <<COMMA>> \o dateStr \o <<COMMA, ev.urgency, COMMA>>
        \o Quoted(desc) \o <<COMMA>> \o Quoted(dept) \o <<COMMA>> \o Quoted(user)

RECURSIVE ExportLines(_, _, _, _)
ExportLines(evs, depts, usrs, off) ==
    IF evs = <<>> THEN <<>>
    ELSE ExportLine(Head(evs), depts, usrs, off) \o <<NL>>
         \o ExportLines(Tail(evs), depts, usrs, off)

\* csvContent of handleExportCSV
ExportText(evs, depts, usrs, off) ==
    HeaderLine \o <<NL>> \o ExportLines(evs, depts, usrs, off)

Col(cols, k) == IF k <= Len(cols) THEN cols[k] ELSE UndefText

\* property names every object literal inherits from Object.prototype
ObjectPrototypeKeys == {"constructor", "toString", "valueOf", "hasOwnProperty"}

\* only the keys of the level set count
HasUrgencyConfigOwn(u) == u \in UrgencyLevels

\* URGENCY_CONFIGS[urgency] is truthy (line 529): a level's configuration,
\* or a member inherited from Object.prototype
HasUrgencyConfig(u) == u \in UrgencyLevels \/ u \in ObjectPrototypeKeys

\* the record pushed for one data line (lines 515-533)
DecodeCols(cols, depts, usrs) ==
    LET urgency == IF Col(cols, 3) = UndefText \/ Len(Col(cols, 3)) # 1
                   THEN UNDEF ELSE Col(cols, 3)[1]
    IN  [title |-> Col(cols, 1),
         date |-> ParseDate(Col(cols, 2)),
         urgency |-> IF HasUrgencyConfig(urgency) THEN urgency ELSE "Medium",
         description |-> Col(cols, 4),
         departmentId |-> IdOfName(depts, Col(cols, 5)),
         assigneeId |-> IdOfName(usrs, Col(cols, 6))]

\* only an empty line is passed over
IsSkippedBlankOnly(line, cols) == line = <<>>

\* a line whose date is not a date is passed over as well
IsSkippedBadDate(line, cols) ==
    line = <<>> \/ Len(cols) < 3 \/ ~IsDateText(cols[2])

\* if (!line) continue (line 507); if (cols.length < 3) continue (line 513)
IsSkipped(line, cols) == line = <<>> \/ Len(cols) < 3

\* for (let i = 1; ...) (line 505)
LoopStart == 1

\* the array is read one line early
LineOfIndexBefore(i) == i

\* lines[i] (line 506): the array is indexed from 0, a sequence from 1
LineOfIndex(i) == i + 1

RECURSIVE DecodeLines(_, _, _, _)
\* the for loop of handleImportCSV from line i on (lines 505-534)
DecodeLines(lines, i, depts, usrs) ==
    IF i > Len(lines) THEN <<>>
    ELSE LET line == Trim(lines[i])
             cols == parseCSVLine(line)
         IN  IF IsSkipped(line, cols)
             THEN DecodeLines(lines, i + 1, depts, usrs)
             ELSE <<DecodeCols(cols, depts, usrs)>>
                  \o DecodeLines(lines, i + 1, depts, usrs)

(* ============================ the inputs ============================== *)

\* all texts over chars of length at most n
Texts(chars, n) == UNION {[1..k -> chars] : k \in 0..n}

\* all sequences over S of length at most n
SeqsUpTo(S, n) == UNION {[1..k -> S] : k \in 0..n}

TzOffsets == {-1, 0, 1}

TitleChars == {"a", COMMA, QUOTE}

Departments == <<[id |-> "d1", name |-> <<"H">>], [id |-> "d2", name |-> <<"H">>],
                 [id |-> "d3", name |-> <<"K", QUOTE>>]>>

Users == <<[id |-> "u1", name |-> <<"A">>]>>

\* instants on the second and third local day of the model's calendar
EventDates == {DayLen, DayLen + 1}

CsvEventPool ==
    [title : {<<"a">>, <<"b", COMMA, QUOTE>>},
     date : EventDates,
     urgency : {"High", "Medium"},
     description : {UndefText, <<"x", NL, "y">>},
     departmentId : {UNDEF, "d2", "d9"},
     assigneeId : {"u1"}]

QuoteEventPool ==
    [title : Texts(TitleChars, MaxTitleLen) \ {<<>>},
     date : {DayLen},
     urgency : {"High"},
     description : {UndefText, <<"a", COMMA, QUOTE>>},
     departmentId : {"d3"},
     assigneeId : {"u1"}]

(* ======================== error messages (setError) =================== *)

ErrNone == ""
ErrImportEmpty == "Lutfen CSV verisi giriniz."
ErrImportHeaderOnly == "CSV icerigi bos veya sadece basliktan olusuyor."
ErrImportFailed == "Import hatasi: CSV formatini kontrol ediniz."

(* ============ AdminModal: the user and department forms =============== *)

\* avatarFile: File | null
NoFile == "null"

FormIdle ==
    /\ newName = EmptyText
    /\ newEmail = EmptyText
    /\ selectedEmoji = ""
    /\ avatarFile = NoFile
    /\ isUploading = FALSE
    /\ uploadPending = <<>>
    /\ addUserCalls = <<>>
    /\ newDeptName = EmptyText
    /\ addDeptCalls = <<>>

(* =================== AnnouncementModal: the sessions ================== *)

\* currentUserId: string | null
NULL == "null"

Sessions == {"s1", "s2"}

\* the viewer signed in in each session
ViewerOf == [s \in Sessions |-> IF s = "s1" THEN "v1" ELSE "v2"]
Viewers == {ViewerOf[s] : s \in Sessions}

\* isDesigner: the add form is rendered in session s1 only
isDesigner == [s \in Sessions |-> s = "s1"]

AnnIdle ==
    /\ now = 0
    /\ annStore = [m \in {} |-> 0]
    /\ pendingWrites = {}
    /\ isOpen = [s \in Sessions |-> FALSE]
    /\ currentUserId = [s \in Sessions |-> NULL]
    /\ announcements = [s \in Sessions |-> <<>>]
    /\ isAddMode = [s \in Sessions |-> FALSE]
    /\ rowNew = [s \in Sessions |-> {}]
    /\ badgeNew = [s \in Sessions |-> {}]
    /\ markCalls = <<>>

(* ============ AdminModal: sign-in and the delete-all button =========== *)

\* the administrator of the session
Admin == "admin"

\* the administrator is signed in, no timer runs, nothing was deleted
GateIdle ==
    /\ authUser = Admin
    /\ authEvents = <<>>
    /\ authCalls = 0
    /\ isDeleteConfirming = FALSE
    /\ deleteTimers = {}
    /\ clock = 0
    /\ armedAt = 0
    /\ deleteAllCalls = 0
    /\ deleteCalls = <<>>

(* ======================= AdminModal: access table ===================== *)

\* an address is written as one element; a text field holds addresses,
\* commas and blanks
IpA == "10.0.0.1"
IpB == "10.0.0.2"

\* a missing designerIps field (ipConfig.designerIps || [])
UndefList == <<UndefText>>

EmptyMap == [a \in {} |-> ""]

NoVisitor == <<>>
NoTier == [tier |-> "none", departmentId |-> UNDEF]

Range(seq) == {seq[i] : i \in 1..Len(seq)}

\* the texts typed into the elevated-address field
DesignerIpTexts == Texts({IpA, IpB, SP}, MaxDesignerIpLen)

RECURSIVE JoinIps(_, _)
\* the addresses written one after the other with sep between them
JoinIps(items, sep) ==
    IF items = <<>> THEN <<>>
    ELSE IF Len(items) = 1 THEN <<Head(items)>>
    ELSE <<Head(items)>> \o sep \o JoinIps(Tail(items), sep)

BatchSeparators == {<<COMMA>>, <<SP>>, <<COMMA, SP>>}

\* the texts typed into the mapping field: up to MaxBatch addresses joined
\* by a comma, a blank or both, as such or after a leading comma, and the
\* blank text
MapIpTexts ==
    {lead \o JoinIps(items, sep) :
        lead \in {<<>>, <<COMMA>>},
        items \in SeqsUpTo({IpA, IpB}, MaxBatch),
        sep \in BatchSeparators}
    \cup {<<SP>>}

\* the values of the department select (lines 927-930)
MapDeptChoices == {""} \cup {Departments[i].id : i \in 1..2}

InitIpConfigs ==
    [designerIps : {UndefList, <<>>, <<<<IpA>>>>},
     departmentIps : {EmptyMap, [a \in {<<IpA>>} |-> "d1"]}]

ErrIpEmpty == "IP adresi bos olamaz."
ErrIpDuplicate == "Bu IP zaten ekli."
ErrMapMissing == "Lutfen IP adresi ve birim seciniz."
\* the message lists the addresses found; the model keeps its fixed part
ErrMapExists == "Su IP'ler zaten tanimli"

\* ipConfig.designerIps || []
CurrentIps(cfg) == IF cfg.designerIps = UndefList THEN <<>> ELSE cfg.designerIps

\* ipConfig.departmentIps[ip] as a condition (line 418)
IsMapped(cfg, ip) ==
    ip \in DOMAIN cfg.departmentIps /\ cfg.departmentIps[ip] # ""

IsSeparator(c) == c = COMMA \/ IsSpace(c)

RECURSIVE SplitIpsAcc(_, _)
SplitIpsAcc(s, cur) ==
    IF s = <<>> THEN (IF cur = <<>> THEN <<>> ELSE <<cur>>)
    ELSE IF IsSeparator(Head(s))
    THEN (IF cur = <<>> THEN <<>> ELSE <<cur>>) \o SplitIpsAcc(Tail(s), <<>>)
    ELSE SplitIpsAcc(Tail(s), Append(cur, Head(s)))

\* newMapIp.split(/[,\s]+/).filter(ip => ip.trim() !== '') (line 415)
SplitIps(s) == SplitIpsAcc(s, <<>>)

RECURSIVE FilterMapped(_, _)
FilterMapped(cfg, seq) ==
    IF seq = <<>> THEN <<>>
    ELSE (IF IsMapped(cfg, Head(seq)) THEN <<Head(seq)>> ELSE <<>>)
         \o FilterMapped(cfg, Tail(seq))

\* only the first address of the batch is looked up
ExistingIpsFirstOnly(cfg, ipsToAdd) ==
    IF ipsToAdd = <<>> THEN <<>> ELSE FilterMapped(cfg, <<Head(ipsToAdd)>>)

\* no address of the batch is looked up
ExistingIpsNone(cfg, ipsToAdd) == <<>>

\* ipsToAdd.filter(ip => ipConfig.departmentIps[ip]) (line 418)
ExistingIps(cfg, ipsToAdd) == FilterMapped(cfg, ipsToAdd)

\* lines 425-428: the map with every address of the batch set to deptId;
\* a key that is there already is written over
UpdatedMap(map, ipsToAdd, deptId) ==
    [a \in DOMAIN map \cup Range(ipsToAdd) |->
        IF a \in Range(ipsToAdd) THEN deptId ELSE map[a]]

\* every address goes
WithoutIpAny(ips, ipToRemove) == <<>>

RECURSIVE WithoutIp(_, _)
\* currentIps.filter(ip => ip !== ipToRemove) (line 400)
WithoutIp(ips, ipToRemove) ==
    IF ips = <<>> THEN <<>>
    ELSE (IF Head(ips) # ipToRemove THEN <<Head(ips)>> ELSE <<>>)
         \o WithoutIp(Tail(ips), ipToRemove)

\* delete updatedMap[ip] (line 439)
WithoutKey(map, ip) == [a \in DOMAIN map \ {ip} |-> map[a]]

\* the duplicate check left out
IsListedNever(ips, ip) == FALSE

\* currentIps.includes(newDesignerIp) (line 385)
IsListed(ips, ip) == ip \in Range(ips)

AccessIdle ==
    /\ ipConfig = [designerIps |-> <<>>, departmentIps |-> EmptyMap]
    /\ newDesignerIp = EmptyText
    /\ newMapIp = EmptyText
    /\ newMapDeptId = ""
    /\ ipUpdateCount = 0
    /\ ipUpdateArg = [designerIps |-> <<>>, departmentIps |-> EmptyMap]
    /\ ipWriteFails = FALSE
    /\ ipAsync = FALSE
    /\ ipPending = <<>>
    /\ visitorIp = NoVisitor
    /\ visitorTier = NoTier

CsvIdle ==
    /\ events = <<>>
    /\ departments = Departments
    /\ users = Users
    /\ tzOffset = 0
    /\ csvContent = UndefText
    /\ importText = EmptyText
    /\ bulkPending = 0
    /\ bulkCalls = <<>>

InitAccess ==
    /\ CsvIdle
    /\ FormIdle
    /\ AnnIdle
    /\ GateIdle
    /\ error = ErrNone
    /\ ipConfig \in InitIpConfigs
    /\ newDesignerIp = EmptyText
    /\ newMapIp = EmptyText
    /\ newMapDeptId = ""
    /\ ipUpdateCount = 0
    /\ ipUpdateArg = ipConfig
    /\ ipWriteFails = FALSE
    /\ ipAsync = FALSE
    /\ ipPending = <<>>
    /\ visitorIp = NoVisitor
    /\ visitorTier = NoTier

\* { ...ipConfig, designerIps: ips } (lines 390-393, 401-404)
WithDesignerIps(config, ips) == [config EXCEPT !.designerIps = ips]

\* the table is built from the map alone
WithDepartmentIpsOnly(config, map) == [designerIps |-> <<>>, departmentIps |-> map]

\* { ...ipConfig, departmentIps: map } (lines 430, 440)
WithDepartmentIps(config, map) == [config EXCEPT !.departmentIps = map]

\* onUpdateIpConfig(config): the parent keeps the table it is given and
\* renders AdminModal with it, before the next handler runs or, when
\* ipAsync, some time later
onUpdateIpConfig(config) ==
    /\ ipUpdateCount < MaxIpCalls
    /\ ipUpdateCount' = ipUpdateCount + 1
    /\ ipUpdateArg' = config
    /\ ipConfig' = IF ipWriteFails \/ ipAsync THEN ipConfig ELSE config
    /\ ipPending' = IF ipAsync /\ ~ipWriteFails THEN Append(ipPending, config)
                    ELSE ipPending

\* line 866
setNewDesignerIp(t) ==
    /\ newDesignerIp' = t
    /\ UNCHANGED <<csvVars, error, ipConfig, newMapIp, newMapDeptId,
                   ipUpdateCount, ipUpdateArg, ipPending, ipWriteFails, ipAsync,
                   visitorVars, annVars,
                   formVars, gateVars>>

\* line 915
setNewMapIp(t) ==
    /\ newMapIp' = t
    /\ UNCHANGED <<csvVars, error, ipConfig, newDesignerIp, newMapDeptId,
                   ipUpdateCount, ipUpdateArg, ipPending, ipWriteFails, ipAsync,
                   visitorVars, annVars,
                   formVars, gateVars>>

\* line 924
setNewMapDeptId(d) ==
    /\ newMapDeptId' = d
    /\ UNCHANGED <<csvVars, error, ipConfig, newDesignerIp, newMapIp,
                   ipUpdateCount, ipUpdateArg, ipPending, ipWriteFails, ipAsync,
                   visitorVars, annVars,
                   formVars, gateVars>>

\* lines 378-396
handleAddDesignerIp ==
    /\ IF Trim(newDesignerIp) = <<>>
       THEN /\ error' = ErrIpEmpty
            /\ UNCHANGED <<ipConfig, newDesignerIp, ipUpdateCount, ipUpdateArg, ipPending>>
       ELSE IF IsListed(CurrentIps(ipConfig), newDesignerIp)
       THEN /\ error' = ErrIpDuplicate
            /\ UNCHANGED <<ipConfig, newDesignerIp, ipUpdateCount, ipUpdateArg, ipPending>>
       ELSE /\ onUpdateIpConfig(
                 WithDesignerIps(ipConfig,
                                 Append(CurrentIps(ipConfig), newDesignerIp)))
            /\ newDesignerIp' = EmptyText
            /\ error' = ErrNone
    /\ UNCHANGED <<csvVars, newMapIp, newMapDeptId, ipWriteFails, ipAsync, visitorVars, annVars, formVars, gateVars>>

\* lines 398-405, called from the button of a listed address (line 885)
handleRemoveDesignerIp(ipToRemove) ==
    /\ onUpdateIpConfig(
         WithDesignerIps(ipConfig, WithoutIp(CurrentIps(ipConfig), ipToRemove)))
    /\ UNCHANGED <<csvVars, error, newDesignerIp, newMapIp, newMapDeptId,
                   ipWriteFails, ipAsync, visitorVars, annVars, formVars, gateVars>>

\* lines 407-435
handleAddIpMapping ==
    /\ IF Trim(newMapIp) = <<>> \/ newMapDeptId = ""
       THEN /\ error' = ErrMapMissing
            /\ UNCHANGED <<ipConfig, newMapIp, newMapDeptId, ipUpdateCount,
                           ipUpdateArg, ipPending>>
       ELSE LET ipsToAdd == SplitIps(newMapIp)
                existingIps == ExistingIps(ipConfig, ipsToAdd)
            IN  IF Len(existingIps) > 0
                THEN /\ error' = ErrMapExists
                     /\ UNCHANGED <<ipConfig, newMapIp, newMapDeptId,
                                    ipUpdateCount, ipUpdateArg, ipPending>>
                ELSE /\ onUpdateIpConfig(
                          WithDepartmentIps(
                             ipConfig,
                             UpdatedMap(ipConfig.departmentIps, ipsToAdd,
                                        newMapDeptId)))
                     /\ newMapIp' = EmptyText
                     /\ newMapDeptId' = ""
                     /\ error' = ErrNone
    /\ UNCHANGED <<csvVars, newDesignerIp, ipWriteFails, ipAsync, visitorVars, annVars, formVars, gateVars>>

\* lines 437-441, called from the button of a listed mapping (line 953)
handleDeleteIpMapping(ip) ==
    /\ onUpdateIpConfig(
         WithDepartmentIps(ipConfig, WithoutKey(ipConfig.departmentIps, ip)))
    /\ UNCHANGED <<csvVars, error, newDesignerIp, newMapIp, newMapDeptId,
                   ipWriteFails, ipAsync, visitorVars, annVars, formVars, gateVars>>

NextAccess ==
    \/ \E t \in DesignerIpTexts : setNewDesignerIp(t)
    \/ \E t \in MapIpTexts : setNewMapIp(t)
    \/ \E d \in MapDeptChoices : setNewMapDeptId(d)
    \/ handleAddDesignerIp
    \/ \E ip \in Range(CurrentIps(ipConfig)) : handleRemoveDesignerIp(ip)
    \/ handleAddIpMapping
    \/ \E ip \in DOMAIN ipConfig.departmentIps : handleDeleteIpMapping(ip)

SpecAccess == InitAccess /\ [][NextAccess]_vars

(* ============ AdminModal: the access table, refreshed later =========== *)

\* the parent renders AdminModal with the oldest table it has taken
RefreshIpConfig ==
    /\ ipPending # <<>>
    /\ ipConfig' = Head(ipPending)
    /\ ipPending' = Tail(ipPending)
    /\ UNCHANGED <<csvVars, error, newDesignerIp, newMapIp, newMapDeptId,
                   ipUpdateCount, ipUpdateArg, ipWriteFails, ipAsync,
                   visitorVars, annVars, formVars, gateVars>>

\* one administrator, an empty table, a parent that renders later
InitAccessAsync ==
    /\ CsvIdle
    /\ FormIdle
    /\ AnnIdle
    /\ GateIdle
    /\ error = ErrNone
    /\ ipConfig = [designerIps |-> <<>>, departmentIps |-> EmptyMap]
    /\ newDesignerIp = EmptyText
    /\ newMapIp = EmptyText
    /\ newMapDeptId = ""
    /\ ipUpdateCount = 0
    /\ ipUpdateArg = ipConfig
    /\ ipWriteFails = FALSE
    /\ ipAsync = TRUE
    /\ ipPending = <<>>
    /\ visitorIp = NoVisitor
    /\ visitorTier = NoTier

\* the addresses typed into the two fields, one at a time
AddedElevated == {<<IpA>>, <<IpB>>}
AddedMapped == {<<IpA>>, <<IpB>>}

\* additions only
NextAccessAsync ==
    \/ \E t \in AddedElevated : setNewDesignerIp(t)
    \/ \E t \in AddedMapped : setNewMapIp(t)
    \/ setNewMapDeptId("d1")
    \/ handleAddDesignerIp
    \/ handleAddIpMapping
    \/ RefreshIpConfig

SpecAccessAsync == InitAccessAsync /\ [][NextAccessAsync]_vars

(* ====================== the application: classify ===================== *)

Elevated == [tier |-> "Elevated", departmentId |-> UNDEF]
DepartmentScoped(d) == [tier |-> "DepartmentScoped", departmentId |-> d]
Unclassified == [tier |-> "Unclassified", departmentId |-> UNDEF]

\* the department map is looked at first
classifyDepartmentFirst(cfg, address) ==
    IF IsMapped(cfg, address) THEN DepartmentScoped(cfg.departmentIps[address])
    ELSE IF address \in Range(CurrentIps(cfg)) THEN Elevated
    ELSE Unclassified

\* classify(address): the elevated list is looked at first, then the
\* department map; an address in neither is Unclassified
classify(cfg, address) ==
    IF address \in Range(CurrentIps(cfg)) THEN Elevated
    ELSE IF IsMapped(cfg, address) THEN DepartmentScoped(cfg.departmentIps[address])
    ELSE Unclassified

\* the addresses a visitor can come from: two the forms can name and one
\* they cannot
IpC == "10.0.0.9"
VisitorAddresses == {<<IpA>>, <<IpB>>, <<IpC>>}

\* lists of distinct addresses
DistinctLists(S) ==
    {l \in SeqsUpTo(S, Cardinality(S)) : \A i, j \in 1..Len(l) : i # j => l[i] # l[j]}

\* partial maps from S to T
PartialMaps(S, T) == UNION {[D -> T] : D \in SUBSET S}

\* the tables the handlers produce from addresses IpA, IpB and the
\* departments of the select
AccessTables ==
    [designerIps : {UndefList} \cup DistinctLists({<<IpA>>, <<IpB>>}),
     departmentIps : PartialMaps({<<IpA>>, <<IpB>>}, MapDeptChoices \ {""})]

InitClassify ==
    /\ CsvIdle
    /\ FormIdle
    /\ AnnIdle
    /\ GateIdle
    /\ error = ErrNone
    /\ ipConfig \in AccessTables
    /\ newDesignerIp = EmptyText
    /\ newMapIp = EmptyText
    /\ newMapDeptId = ""
    /\ ipUpdateCount = 0
    /\ ipUpdateArg = ipConfig
    /\ ipWriteFails = FALSE
    /\ ipAsync = FALSE
    /\ ipPending = <<>>
    /\ visitorIp = NoVisitor
    /\ visitorTier = NoTier

\* a request from address is classified against the current table
ClassifyVisitor(address) ==
    /\ visitorIp' = address
    /\ visitorTier' = classify(ipConfig, address)
    /\ UNCHANGED <<csvVars, error, accVars, annVars, formVars, gateVars>>

NextClassify ==
    \/ \E a \in VisitorAddresses : ClassifyVisitor(a)
    \/ \E ip \in Range(CurrentIps(ipConfig)) : handleRemoveDesignerIp(ip)
    \/ \E ip \in DOMAIN ipConfig.departmentIps : handleDeleteIpMapping(ip)

SpecClassify == InitClassify /\ [][NextClassify]_vars

(* ========================= AnnouncementModal ========================== *)

MsgIds == <<"m1", "m2">>

\* an announcement without a readBy field (announcement.readBy || [])
NoReadBy == <<UNDEF>>

\* the acknowledgment a write carries when it names no replacement list
NoReplacement == <<UNDEF>>

\* announcement.readBy || []
ReadByOf(a) == IF a.readBy = NoReadBy THEN <<>> ELSE a.readBy

\* startOfDay(date): the instant the local day of t begins
StartOfDay(t, off) == t - ((t + off) % DayLen)

\* less than one day old
isTodayRolling(t) == now - t < DayLen

\* isToday(date): isSameDay(date, Date.now())
isToday(t) == StartOfDay(t, tzOffset) = StartOfDay(now, tzOffset)

\* a truthy currentUserId
IsTruthy(id) == id # NULL /\ id # ""

RECURSIVE InsertByCreatedAt(_, _)
\* a goes before the first element created earlier than it
InsertByCreatedAt(a, sorted) ==
    IF sorted = <<>> THEN <<a>>
    ELSE IF Head(sorted).createdAt < a.createdAt THEN <<a>> \o sorted
    ELSE <<Head(sorted)>> \o InsertByCreatedAt(a, Tail(sorted))

RECURSIVE SortedByCreatedAt(_)
\* [...announcements].sort((a, b) => b.createdAt - a.createdAt) (lines 42-44):
\* newest first, equal dates in the order of the prop
SortedByCreatedAt(anns) ==
    IF anns = <<>> THEN <<>>
    ELSE LET rest == SortedByCreatedAt(SubSeq(anns, 1, Len(anns) - 1))
         IN  InsertByCreatedAt(anns[Len(anns)], rest)

\* the acknowledgment list is not looked at
isUnreadEffectTodayOnly(a, viewerId) == isToday(a.createdAt)

\* lines 50-51
isUnreadEffect(a, viewerId) ==
    isToday(a.createdAt) /\ ~(viewerId \in Range(ReadByOf(a)))

\* lines 141-143: the row is highlighted
isRowNew(a, viewerId) ==
    isToday(a.createdAt) /\ IsTruthy(viewerId) /\ ~(viewerId \in Range(ReadByOf(a)))

\* lines 154-156: the 'YENI' badge is shown
isBadgeNew(a, viewerId) ==
    isToday(a.createdAt) /\ IsTruthy(viewerId) /\ ~(viewerId \in Range(ReadByOf(a)))

\* a request that carries the list the modal computed from its own copy
MarkAsReadRequestWithList(s, a, viewerId) ==
    [id |-> a.id, viewer |-> viewerId, readBy |-> Append(ReadByOf(a), viewerId)]

\* onMarkAsRead(announcement.id) (line 53): the identifier is all the modal
\* passes; the parent knows the session's viewer
MarkAsReadRequest(s, a, viewerId) ==
    [id |-> a.id, viewer |-> viewerId, readBy |-> NoReplacement]

RECURSIVE EffectCallsOf(_, _, _)
EffectCallsOf(s, sorted, viewerId) ==
    IF sorted = <<>> THEN <<>>
    ELSE (IF isUnreadEffect(Head(sorted), viewerId)
          THEN <<MarkAsReadRequest(s, Head(sorted), viewerId)>> ELSE <<>>)
         \o EffectCallsOf(s, Tail(sorted), viewerId)

\* the effect of lines 47-57 for one render: the onMarkAsRead calls, in order
EffectCalls(s, open, viewerId, anns) ==
    IF open /\ IsTruthy(viewerId)
    THEN EffectCallsOf(s, SortedByCreatedAt(anns), viewerId)
    ELSE <<>>

\* the dependency list of the effect (line 57) is compared element by
\* element with Object.is; sortedAnnouncements is a new array in every
\* render (line 42), so the list always differs and the effect runs after
\* every render
EffectDepsChanged == TRUE

\* the store's answer to a write: an acknowledgment is added to the list
\* if it is not in it; a replacement list is written as it is
ApplyToReadBy(readBy, w) ==
    IF w.readBy # NoReplacement THEN w.readBy
    ELSE IF w.viewer \in Range(IF readBy = NoReadBy THEN <<>> ELSE readBy)
    THEN readBy
    ELSE Append(IF readBy = NoReadBy THEN <<>> ELSE readBy, w.viewer)

RECURSIVE SnapshotOf(_, _)
SnapshotOf(store, ids) ==
    IF ids = <<>> THEN <<>>
    ELSE (IF Head(ids) \in DOMAIN store THEN <<store[Head(ids)]>> ELSE <<>>)
         \o SnapshotOf(store, Tail(ids))

\* the announcements array the parent builds from the store
Snapshot(store) == SnapshotOf(store, MsgIds)

\* one render of the open modal of session s with the given props, and
\* the effect after it
Render(s, viewerId, anns) ==
    LET calls == IF EffectDepsChanged THEN EffectCalls(s, TRUE, viewerId, anns)
                 ELSE <<>>
    IN  /\ Len(markCalls) + Len(calls) <= MaxMarkCalls
        /\ rowNew' = [rowNew EXCEPT ![s] =
                        {anns[i].id : i \in {j \in 1..Len(anns) : isRowNew(anns[j], viewerId)}}]
        /\ badgeNew' = [badgeNew EXCEPT ![s] =
                        {anns[i].id : i \in {j \in 1..Len(anns) : isBadgeNew(anns[j], viewerId)}}]
        /\ markCalls' = markCalls \o [i \in 1..Len(calls) |->
                                        [session |-> s, id |-> calls[i].id]]
        /\ pendingWrites' = pendingWrites \cup Range(calls)

\* the announcements there are when the sessions start: m1, with no readBy
\* field or acknowledged by viewer v1, and m2 or not, acknowledged by
\* nobody; both created at or before now
InitStores(t) ==
    LET Ann1 == [id : {"m1"}, createdAt : 0..t, readBy : {NoReadBy, <<"v1">>}]
        Ann2 == [id : {"m2"}, createdAt : 0..t, readBy : {<<>>}]
    IN  {[m \in {"m1"} |-> a] : a \in Ann1}
        \cup {[m \in {"m1", "m2"} |-> IF m = "m1" THEN a ELSE b] :
                a \in Ann1, b \in Ann2}

InitAnn ==
    /\ events = <<>>
    /\ departments = Departments
    /\ users = Users
    /\ csvContent = UndefText
    /\ importText = EmptyText
    /\ bulkPending = 0
    /\ bulkCalls = <<>>
    /\ error = ErrNone
    /\ AccessIdle
    /\ FormIdle
    /\ GateIdle
    /\ tzOffset \in TzOffsets
    /\ now \in 1..(MaxNow - 1)
    /\ annStore \in InitStores(now)
    /\ pendingWrites = {}
    /\ isOpen = [s \in Sessions |-> FALSE]
    /\ currentUserId \in {f \in [Sessions -> {NULL} \cup Viewers] :
                            /\ f["s1"] = ViewerOf["s1"]
                            /\ f["s2"] \in {NULL, ViewerOf["s2"]}}
    /\ announcements = [s \in Sessions |-> Snapshot(annStore)]
    /\ isAddMode = [s \in Sessions |-> FALSE]
    /\ rowNew = [s \in Sessions |-> {}]
    /\ badgeNew = [s \in Sessions |-> {}]
    /\ markCalls = <<>>

\* the parent mounts the modal with isOpen = true: first render and effect
OpenModal(s) ==
    /\ ~isOpen[s]
    /\ isOpen' = [isOpen EXCEPT ![s] = TRUE]
    /\ Render(s, currentUserId[s], announcements[s])
    /\ UNCHANGED <<now, annStore, currentUserId, announcements, isAddMode>>
    /\ UNCHANGED <<csvVars, error, accVars, visitorVars, formVars, gateVars>>

\* onClose: the parent takes the modal away; its state is gone with it
onClose(s) ==
    /\ isOpen[s]
    /\ isOpen' = [isOpen EXCEPT ![s] = FALSE]
    /\ isAddMode' = [isAddMode EXCEPT ![s] = FALSE]
    /\ rowNew' = [rowNew EXCEPT ![s] = {}]
    /\ badgeNew' = [badgeNew EXCEPT ![s] = {}]
    /\ UNCHANGED <<now, annStore, pendingWrites, currentUserId, announcements,
                   markCalls>>
    /\ UNCHANGED <<csvVars, error, accVars, visitorVars, formVars, gateVars>>

\* 'Yeni Duyuru Ekle' (line 83) and 'Iptal' (lines 114-118): a state change
\* of the open modal, and the render it causes
setIsAddMode(s, b) ==
    /\ isOpen[s]
    /\ isDesigner[s]
    /\ isAddMode[s] # b
    /\ isAddMode' = [isAddMode EXCEPT ![s] = b]
    /\ Render(s, currentUserId[s], announcements[s])
    /\ UNCHANGED <<now, annStore, isOpen, currentUserId, announcements>>
    /\ UNCHANGED <<csvVars, error, accVars, visitorVars, formVars, gateVars>>

\* the parent hands session s the announcements as the store has them now;
\* an open modal renders again
RefreshAnnouncements(s) ==
    /\ announcements[s] # Snapshot(annStore)
    /\ announcements' = [announcements EXCEPT ![s] = Snapshot(annStore)]
    /\ IF isOpen[s]
       THEN Render(s, currentUserId[s], Snapshot(annStore))
       ELSE UNCHANGED <<rowNew, badgeNew, markCalls, pendingWrites>>
    /\ UNCHANGED <<now, annStore, isOpen, currentUserId, isAddMode>>
    /\ UNCHANGED <<csvVars, error, accVars, visitorVars, formVars, gateVars>>

\* the store carries out one acknowledgment write
ApplyWrite(w) ==
    /\ w \in pendingWrites
    /\ pendingWrites' = pendingWrites \ {w}
    /\ annStore' = IF w.id \in DOMAIN annStore
                   THEN [annStore EXCEPT ![w.id].readBy = ApplyToReadBy(@, w)]
                   ELSE annStore
    /\ UNCHANGED <<now, isOpen, currentUserId, announcements, isAddMode,
                   rowNew, badgeNew, markCalls>>
    /\ UNCHANGED <<csvVars, error, accVars, visitorVars, formVars, gateVars>>

\* time passes
Tick ==
    /\ now < MaxNow
    /\ now' = now + 1
    /\ UNCHANGED <<annStore, pendingWrites, isOpen, currentUserId, announcements,
                   isAddMode, rowNew, badgeNew, markCalls>>
    /\ UNCHANGED <<csvVars, error, accVars, visitorVars, formVars, gateVars>>

NextAnn ==
    \/ \E s \in Sessions : OpenModal(s)
    \/ \E s \in Sessions : onClose(s)
    \/ \E s \in Sessions, b \in BOOLEAN : setIsAddMode(s, b)
    \/ \E s \in Sessions : RefreshAnnouncements(s)
    \/ \E w \in pendingWrites : ApplyWrite(w)
    \/ Tick

SpecAnn == InitAnn /\ [][NextAnn]_vars

(* ====================== AdminModal: import / export =================== *)

InitCsvRest ==
    /\ AccessIdle
    /\ FormIdle
    /\ AnnIdle
    /\ GateIdle
    /\ departments = Departments
    /\ users = Users
    /\ tzOffset \in TzOffsets
    /\ csvContent = UndefText
    /\ importText = EmptyText
    /\ error = ErrNone
    /\ bulkPending = 0
    /\ bulkCalls = <<>>

InitCsv ==
    /\ events \in SeqsUpTo(CsvEventPool, MaxEvents)
    /\ InitCsvRest

InitQuote ==
    /\ events \in SeqsUpTo(QuoteEventPool, 1)
    /\ InitCsvRest

\* lines 444-469: the text handed to the Blob
handleExportCSV ==
    /\ csvContent' = ExportText(events, departments, users, tzOffset)
    /\ UNCHANGED <<events, departments, users, tzOffset, importText, error,
                   bulkPending, bulkCalls, accVars, visitorVars, annVars, formVars, gateVars>>

\* line 1082: the exported file's text is put into the import textarea
PasteExportedCsv ==
    /\ csvContent # UndefText
    /\ importText' = csvContent
    /\ UNCHANGED <<events, departments, users, tzOffset, csvContent, error,
                   bulkPending, bulkCalls, accVars, visitorVars, annVars, formVars, gateVars>>

\* lines 471-536: up to the call of onBulkAddEvents
handleImportCSV ==
    /\ Len(bulkCalls) < MaxBulkCalls
    /\ IF Trim(importText) = <<>>
       THEN /\ error' = ErrImportEmpty
            /\ UNCHANGED <<bulkPending, bulkCalls>>
       ELSE LET lines == Split(Trim(importText), NL)
            IN  IF Len(lines) < 2
                THEN /\ error' = ErrImportHeaderOnly
                     /\ UNCHANGED <<bulkPending, bulkCalls>>
                ELSE /\ bulkCalls' = Append(bulkCalls,
                                            DecodeLines(lines, LineOfIndex(LoopStart), departments, users))
                     /\ bulkPending' = bulkPending + 1
                     /\ UNCHANGED error
    /\ UNCHANGED <<events, departments, users, tzOffset, csvContent, importText,
                   accVars, visitorVars, annVars, formVars, gateVars>>

\* lines 537-538: onBulkAddEvents resolved
BulkAddResolved ==
    /\ bulkPending > 0
    /\ bulkPending' = bulkPending - 1
    /\ importText' = EmptyText
    /\ error' = ErrNone
    /\ UNCHANGED <<events, departments, users, tzOffset, csvContent, bulkCalls,
                   accVars, visitorVars, annVars, formVars, gateVars>>

\* lines 540-543: onBulkAddEvents rejected
BulkAddRejected ==
    /\ bulkPending > 0
    /\ bulkPending' = bulkPending - 1
    /\ error' = ErrImportFailed
    /\ UNCHANGED <<events, departments, users, tzOffset, csvContent, importText,
                   bulkCalls, accVars, visitorVars, annVars, formVars, gateVars>>

NextCsv ==
    \/ handleExportCSV
    \/ PasteExportedCsv
    \/ handleImportCSV
    \/ BulkAddResolved
    \/ BulkAddRejected

SpecCsv == InitCsv /\ [][NextCsv]_vars

SpecQuote == InitQuote /\ [][NextCsv]_vars

(* ================== AdminModal: import of pasted text ================= *)

\* lines an actor pastes after the header
LineOk == <<"a", COMMA, "1", COMMA, "High", COMMA, "d", COMMA, "H", COMMA, "A">>
LineTwoFields == <<"b", COMMA, "1">>
LineOpenQuote == <<QUOTE, "c", COMMA, "1", COMMA, "High">>
LineBlank == <<SP>>
LineUnknownUrgency == <<"e", COMMA, "1", COMMA, "Unknown">>
LineInheritedKey == <<"f", COMMA, "1", COMMA, "constructor">>
LineEmptyUrgency == <<"g", COMMA, "1", COMMA>>
LineBadDate == <<"h", COMMA, "x", COMMA, "Low">>
LineOtherCase == <<"i", COMMA, "2", COMMA, "Low", COMMA, "d", COMMA, "h", COMMA, "Z">>
LineSpacedName == <<"j", COMMA, "2", COMMA, "Low", COMMA, "d", COMMA, SP, "H", COMMA, "A">>

ImportLinePool ==
    {LineOk, LineTwoFields, LineOpenQuote, LineBlank, LineUnknownUrgency,
     LineInheritedKey, LineEmptyUrgency, LineBadDate, LineOtherCase, LineSpacedName}

RECURSIVE JoinLines(_)
JoinLines(ls) ==
    IF ls = <<>> THEN <<>>
    ELSE IF Len(ls) = 1 THEN ls[1]
    ELSE ls[1] \o <<NL>> \o JoinLines(Tail(ls))

\* the texts of the import textarea (line 1081): nothing, white space, or
\* the header line and up to MaxImportLines lines
ImportTexts ==
    {EmptyText, <<SP, NL>>}
    \cup {HeaderLine \o <<NL>> \o JoinLines(ls) :
            ls \in SeqsUpTo(ImportLinePool, MaxImportLines)}

InitImport ==
    /\ AccessIdle
    /\ FormIdle
    /\ AnnIdle
    /\ GateIdle
    /\ events = <<>>
    /\ departments = Departments
    /\ users = Users
    /\ tzOffset = 0
    /\ csvContent = UndefText
    /\ importText \in ImportTexts
    /\ error = ErrNone
    /\ bulkPending = 0
    /\ bulkCalls = <<>>

NextImport ==
    \/ handleImportCSV
    \/ BulkAddResolved
    \/ BulkAddRejected

SpecImport == InitImport /\ [][NextImport]_vars

(* ============== AdminModal: import, the first line ==================== *)

\* first lines of a pasted text: the header, rows, a blank line, a word
FirstLinePool == {HeaderLine, LineOk, LineBadDate, LineBlank, <<"x">>}

\* the lines after the first
RowPool == {LineOk, LineTwoFields, LineOtherCase}

HeaderTexts ==
    {JoinLines(<<first>> \o ls) :
        first \in FirstLinePool, ls \in SeqsUpTo(RowPool, MaxImportLines)}

InitHeader ==
    /\ AccessIdle
    /\ FormIdle
    /\ AnnIdle
    /\ GateIdle
    /\ events = <<>>
    /\ departments = Departments
    /\ users = Users
    /\ tzOffset = 0
    /\ csvContent = UndefText
    /\ importText \in HeaderTexts
    /\ error = ErrNone
    /\ bulkPending = 0
    /\ bulkCalls = <<>>

SpecHeader == InitHeader /\ [][NextImport]_vars

(* ================= AdminModal: users and departments ================== *)

ErrUserFields == "Lutfen isim ve e-posta alanlarini doldurunuz."
ErrUserAvatar == "Lutfen bir emoji seciniz veya fotograf yukleyiniz."
\* the message ends with err.message; the model keeps its fixed part
ErrAddUserFailed == "Kullanici eklenirken hata olustu"
ErrDeptEmpty == "Birim adi bos olamaz."

\* the fallback of line 347
DefaultEmoji == "person"

\* getDownloadURL(snapshot.ref) (line 341)
DownloadUrl(file) == <<"https://", file>>

\* the texts typed into a name or e-mail field
FieldTexts == {EmptyText, <<SP>>, <<"n">>}

\* the emoji picked (line 730) or none
EmojiChoices == {"", "e"}

\* the file picked (lines 301-304) or none
FileChoices == {NoFile, "f.png"}

\* no field counts as empty
IsEmptyFieldNever(t) == FALSE

\* !field.trim() (lines 321, 368)
IsEmptyField(t) == Trim(t) = <<>>

\* selectedEmoji || DefaultEmoji
EmojiToSave(emoji) == IF emoji # "" THEN emoji ELSE DefaultEmoji

\* the submission is let through whatever was picked
NoAvatarNever(emoji, file) == FALSE

\* !selectedEmoji && !avatarFile (line 326)
NoAvatar(emoji, file) == emoji = "" /\ file = NoFile

\* lines 318-340 and 347-349: up to the upload of the picked file or, when
\* no file was picked, up to the call of onAddUser
handleAddSubmit ==
    /\ ~isUploading
    /\ Len(addUserCalls) < MaxUserCalls
    /\ IF IsEmptyField(newName) \/ IsEmptyField(newEmail)
       THEN /\ error' = ErrUserFields
            /\ UNCHANGED <<isUploading, uploadPending, addUserCalls>>
       ELSE IF NoAvatar(selectedEmoji, avatarFile)
       THEN /\ error' = ErrUserAvatar
            /\ UNCHANGED <<isUploading, uploadPending, addUserCalls>>
       ELSE IF avatarFile # NoFile
       THEN /\ uploadPending' =
                 <<[name |-> newName, email |-> newEmail,
                    emoji |-> EmojiToSave(selectedEmoji),
                    avatarUrl |-> DownloadUrl(avatarFile)]>>
            /\ isUploading' = TRUE
            /\ UNCHANGED <<error, addUserCalls>>
       ELSE /\ addUserCalls' =
                 Append(addUserCalls,
                        [name |-> newName, email |-> newEmail,
                         emoji |-> EmojiToSave(selectedEmoji),
                         avatarUrl |-> EmptyText])
            /\ isUploading' = TRUE
            /\ UNCHANGED <<error, uploadPending>>
    /\ UNCHANGED <<newName, newEmail, selectedEmoji, avatarFile, newDeptName,
                   addDeptCalls>>
    /\ UNCHANGED <<csvVars, accVars, visitorVars, annVars, gateVars>>

\* lines 340-349: uploadBytes and getDownloadURL resolved, onAddUser is called
UploadResolved ==
    /\ uploadPending # <<>>
    /\ addUserCalls' = Append(addUserCalls, uploadPending[1])
    /\ uploadPending' = <<>>
    /\ UNCHANGED <<newName, newEmail, selectedEmoji, avatarFile, isUploading,
                   newDeptName, addDeptCalls, error>>
    /\ UNCHANGED <<csvVars, accVars, visitorVars, annVars, gateVars>>

\* lines 340-341 and 358-363: uploadBytes or getDownloadURL rejected
UploadRejected ==
    /\ uploadPending # <<>>
    /\ uploadPending' = <<>>
    /\ error' = ErrAddUserFailed
    /\ isUploading' = FALSE
    /\ UNCHANGED <<newName, newEmail, selectedEmoji, avatarFile, addUserCalls,
                   newDeptName, addDeptCalls>>
    /\ UNCHANGED <<csvVars, accVars, visitorVars, annVars, gateVars>>

\* lines 351-357 and 361-363: onAddUser resolved
AddUserResolved ==
    /\ isUploading
    /\ uploadPending = <<>>
    /\ newName' = EmptyText
    /\ newEmail' = EmptyText
    /\ selectedEmoji' = ""
    /\ avatarFile' = NoFile
    /\ error' = ErrNone
    /\ isUploading' = FALSE
    /\ UNCHANGED <<uploadPending, addUserCalls, newDeptName, addDeptCalls>>
    /\ UNCHANGED <<csvVars, accVars, visitorVars, annVars, gateVars>>

\* lines 358-363: onAddUser rejected
AddUserRejected ==
    /\ isUploading
    /\ uploadPending = <<>>
    /\ error' = ErrAddUserFailed
    /\ isUploading' = FALSE
    /\ UNCHANGED <<newName, newEmail, selectedEmoji, avatarFile, uploadPending,
                   addUserCalls, newDeptName, addDeptCalls>>
    /\ UNCHANGED <<csvVars, accVars, visitorVars, annVars, gateVars>>

\* lines 366-375
handleAddDeptSubmit ==
    /\ IF IsEmptyField(newDeptName)
       THEN /\ error' = ErrDeptEmpty
            /\ UNCHANGED <<newDeptName, addDeptCalls>>
       ELSE /\ addDeptCalls' = Append(addDeptCalls, newDeptName)
            /\ newDeptName' = EmptyText
            /\ error' = ErrNone
    /\ UNCHANGED <<newName, newEmail, selectedEmoji, avatarFile, isUploading,
                   uploadPending, addUserCalls>>
    /\ UNCHANGED <<csvVars, accVars, visitorVars, annVars, gateVars>>

(* ===================== AdminModal: all the forms ====================== *)

\* the addresses a remove handler is called with
RemovedAddresses == {<<IpA>>, <<IpB>>}

\* the texts of the import textarea with at most one line after the header
ShortImportTexts ==
    {EmptyText, <<SP, NL>>}
    \cup {HeaderLine \o <<NL>> \o JoinLines(ls) : ls \in SeqsUpTo(ImportLinePool, 1)}

ImportIdle ==
    /\ events = <<>>
    /\ departments = Departments
    /\ users = Users
    /\ tzOffset = 0
    /\ csvContent = UndefText
    /\ importText = EmptyText
    /\ bulkPending = 0
    /\ bulkCalls = <<>>

\* the actor has filled in the access forms
InitAdminAccess ==
    /\ ImportIdle
    /\ FormIdle
    /\ ipConfig \in InitIpConfigs
    /\ newDesignerIp \in DesignerIpTexts
    /\ newMapIp \in MapIpTexts
    /\ newMapDeptId \in MapDeptChoices
    /\ ipUpdateCount = 0
    /\ ipUpdateArg = ipConfig
    /\ ipWriteFails \in BOOLEAN
    /\ ipAsync = FALSE
    /\ ipPending = <<>>
    /\ visitorIp = NoVisitor
    /\ visitorTier = NoTier

\* the actor has filled in the import textarea
InitAdminImport ==
    /\ AccessIdle
    /\ FormIdle
    /\ events = <<>>
    /\ departments = Departments
    /\ users = Users
    /\ tzOffset = 0
    /\ csvContent = UndefText
    /\ importText \in ShortImportTexts
    /\ bulkPending = 0
    /\ bulkCalls = <<>>

\* the actor has filled in the user and department forms
InitAdminForms ==
    /\ AccessIdle
    /\ ImportIdle
    /\ newName \in FieldTexts
    /\ newEmail \in FieldTexts
    /\ selectedEmoji \in EmojiChoices
    /\ avatarFile \in FileChoices
    /\ isUploading = FALSE
    /\ uploadPending = <<>>
    /\ addUserCalls = <<>>
    /\ newDeptName \in FieldTexts
    /\ addDeptCalls = <<>>

InitAdmin ==
    /\ AnnIdle
    /\ GateIdle
    /\ error = ErrNone
    /\ (InitAdminAccess \/ InitAdminImport \/ InitAdminForms)

NextAdmin ==
    \/ handleAddDesignerIp
    \/ \E ip \in RemovedAddresses : handleRemoveDesignerIp(ip)
    \/ handleAddIpMapping
    \/ \E ip \in RemovedAddresses : handleDeleteIpMapping(ip)
    \/ handleImportCSV
    \/ BulkAddResolved
    \/ BulkAddRejected
    \/ handleAddSubmit
    \/ UploadResolved
    \/ UploadRejected
    \/ AddUserResolved
    \/ AddUserRejected
    \/ handleAddDeptSubmit

SpecAdmin == InitAdmin /\ [][NextAdmin]_vars

(* ======================= AdminModal: export =========================== *)

\* the departments after one was renamed and one was added
DepartmentsLater ==
    <<[id |-> "d1", name |-> <<"M">>], [id |-> "d2", name |-> <<"H">>],
      [id |-> "d3", name |-> <<"K", QUOTE>>], [id |-> "d4", name |-> <<"d1">>]>>

\* events with a department or an assignee, with none, and with one that
\* is in no list
ExportEventPool ==
    [title : {<<"a">>},
     date : {DayLen},
     urgency : {"High"},
     description : {UndefText, <<"x">>},
     departmentId : {UNDEF, "d1", "d3", "d4", "d9"},
     assigneeId : {UNDEF, "u1", "u9"}]

InitExport ==
    /\ AccessIdle
    /\ FormIdle
    /\ AnnIdle
    /\ GateIdle
    /\ events \in SeqsUpTo(ExportEventPool, MaxEvents)
    /\ departments \in {Departments, DepartmentsLater}
    /\ users = Users
    /\ tzOffset = 0
    /\ csvContent = UndefText
    /\ importText = EmptyText
    /\ error = ErrNone
    /\ bulkPending = 0
    /\ bulkCalls = <<>>

NextExport == handleExportCSV

SpecExport == InitExport /\ [][NextExport]_vars

(* ================= AdminModal: the delete-all button ================== *)

\* setTimeout(..., 3000) (line 553), in seconds
ConfirmTimeout == 3

\* every click is taken as the second one
IsConfirmingAlways(flag) == TRUE

\* if (isDeleteConfirming) (line 547)
IsConfirming(flag) == flag

\* lines 546-555; the button is disabled when there are no events (line 985)
handleDeleteAllClick ==
    /\ events # <<>>
    /\ deleteAllCalls < MaxDeleteAllCalls
    /\ IF IsConfirming(isDeleteConfirming)
       THEN /\ deleteAllCalls' = deleteAllCalls + 1
            /\ isDeleteConfirming' = FALSE
            /\ UNCHANGED <<deleteTimers, armedAt>>
       ELSE /\ isDeleteConfirming' = TRUE
            /\ deleteTimers' = deleteTimers \cup {clock + ConfirmTimeout}
            /\ armedAt' = clock
            /\ UNCHANGED deleteAllCalls
    /\ UNCHANGED <<csvVars, error, accVars, visitorVars, annVars, formVars,
                   authUser, authEvents, authCalls, clock, deleteCalls>>

\* line 553: a timer that is due calls setIsDeleteConfirming(false)
TimerFires ==
    /\ \E t \in deleteTimers :
         /\ t <= clock
         /\ deleteTimers' = deleteTimers \ {t}
    /\ isDeleteConfirming' = FALSE
    /\ UNCHANGED <<csvVars, error, accVars, visitorVars, annVars, formVars,
                   authUser, authEvents, authCalls, clock, armedAt,
                   deleteAllCalls, deleteCalls>>

\* a second passes; the timers that are due have fired
TickSecond ==
    /\ clock < MaxClock
    /\ \A t \in deleteTimers : t > clock
    /\ clock' = clock + 1
    /\ UNCHANGED <<csvVars, error, accVars, visitorVars, annVars, formVars,
                   authUser, authEvents, authCalls, isDeleteConfirming,
                   deleteTimers, armedAt, deleteAllCalls, deleteCalls>>

\* the parent has deleted the events and renders AdminModal with none
EventsDeleted ==
    /\ deleteAllCalls > 0
    /\ events # <<>>
    /\ events' = <<>>
    /\ UNCHANGED <<departments, users, tzOffset, csvContent, importText,
                   bulkPending, bulkCalls, error, accVars, visitorVars, annVars,
                   formVars, gateVars>>

\* an event of the calendar
OneEvent ==
    [title |-> <<"a">>, date |-> DayLen, urgency |-> "High",
     description |-> UndefText, departmentId |-> UNDEF, assigneeId |-> UNDEF]

InitDeleteAll ==
    /\ AccessIdle
    /\ FormIdle
    /\ AnnIdle
    /\ GateIdle
    /\ events \in {<<>>, <<OneEvent>>, <<OneEvent, OneEvent>>}
    /\ departments = Departments
    /\ users = Users
    /\ tzOffset = 0
    /\ csvContent = UndefText
    /\ importText = EmptyText
    /\ error = ErrNone
    /\ bulkPending = 0
    /\ bulkCalls = <<>>

NextDeleteAll ==
    \/ handleDeleteAllClick
    \/ TimerFires
    \/ TickSecond
    \/ EventsDeleted

SpecDeleteAll == InitDeleteAll /\ [][NextDeleteAll]_vars

(* ======================= AdminModal: sign-in ========================== *)

\* the message of a failed sign-in; the model keeps one of the three
ErrLoginFailed == "Hatali e-posta veya sifre."

\* {!authUser ? login view : authenticated view} (lines 569, 583)
AuthenticatedView == authUser # NULL

\* lines 274-291, from the form of the login view; signInWithEmailAndPassword
\* resolves, and Firebase will call the listener, or rejects
handleLogin(ok) ==
    /\ ~AuthenticatedView
    /\ authCalls < MaxAuthCalls
    /\ authCalls' = authCalls + 1
    /\ IF ok
       THEN /\ authEvents' = Append(authEvents, Admin)
            /\ error' = ErrNone
       ELSE /\ error' = ErrLoginFailed
            /\ UNCHANGED authEvents
    /\ UNCHANGED <<csvVars, accVars, visitorVars, annVars, formVars, authUser,
                   isDeleteConfirming, deleteTimers, clock, armedAt,
                   deleteAllCalls, deleteCalls>>

\* lines 293-299, from the button of the header (line 571); signOut
\* resolves and Firebase will call the listener
handleLogout ==
    /\ AuthenticatedView
    /\ authCalls < MaxAuthCalls
    /\ authCalls' = authCalls + 1
    /\ authEvents' = Append(authEvents, NULL)
    /\ UNCHANGED <<csvVars, error, accVars, visitorVars, annVars, formVars,
                   authUser, isDeleteConfirming, deleteTimers, clock, armedAt,
                   deleteAllCalls, deleteCalls>>

\* lines 266-269: the listener of onAuthStateChanged
AuthStateChanged ==
    /\ authEvents # <<>>
    /\ authUser' = Head(authEvents)
    /\ authEvents' = Tail(authEvents)
    /\ UNCHANGED <<csvVars, error, accVars, visitorVars, annVars, formVars,
                   authCalls, isDeleteConfirming, deleteTimers, clock, armedAt,
                   deleteAllCalls, deleteCalls>>

\* the callbacks of the delete buttons of the lists (lines 781, 834, 1026)
DeleteCallbacks == {"onDeleteUser", "onDeleteDepartment", "onDeleteEvent"}

\* the identifier of the first row of the list of the callback
FirstRowOf(callback) ==
    IF callback = "onDeleteUser" THEN users[1].id
    ELSE IF callback = "onDeleteDepartment" THEN departments[1].id
    ELSE "e1"

\* onClick={() => onDeleteUser(user.id)} and the like, on the first row
DeleteClick(callback) ==
    /\ Len(deleteCalls) < MaxDeleteClicks
    /\ deleteCalls' = Append(deleteCalls, <<callback, FirstRowOf(callback)>>)
    /\ UNCHANGED <<csvVars, error, accVars, visitorVars, annVars, formVars,
                   authUser, authEvents, authCalls, isDeleteConfirming,
                   deleteTimers, clock, armedAt, deleteAllCalls>>

\* the modal is mounted: Firebase will call the listener with the
\* administrator of a kept session or with null; the forms are filled in
InitAuth ==
    /\ AccessIdle
    /\ AnnIdle
    /\ events = <<OneEvent>>
    /\ departments = Departments
    /\ users = Users
    /\ tzOffset = 0
    /\ csvContent = UndefText
    /\ importText = HeaderLine \o <<NL>> \o LineOk
    /\ error = ErrNone
    /\ bulkPending = 0
    /\ bulkCalls = <<>>
    /\ newName = <<"n">>
    /\ newEmail = <<"n">>
    /\ selectedEmoji = "e"
    /\ avatarFile \in {NoFile, "f.png"}
    /\ isUploading = FALSE
    /\ uploadPending = <<>>
    /\ addUserCalls = <<>>
    /\ newDeptName = <<"n">>
    /\ addDeptCalls = <<>>
    /\ authUser = NULL
    /\ authEvents \in {<<NULL>>, <<Admin>>}
    /\ authCalls = 0
    /\ isDeleteConfirming = FALSE
    /\ deleteTimers = {}
    /\ clock = 0
    /\ armedAt = 0
    /\ deleteAllCalls = 0
    /\ deleteCalls = <<>>

NextAuth ==
    \/ \E ok \in BOOLEAN : handleLogin(ok)
    \/ handleLogout
    \/ AuthStateChanged
    \/ (AuthenticatedView /\ handleAddSubmit)
    \/ UploadResolved
    \/ UploadRejected
    \/ AddUserResolved
    \/ AddUserRejected
    \/ (AuthenticatedView /\ handleAddDeptSubmit)
    \/ (AuthenticatedView /\ handleImportCSV)
    \/ BulkAddResolved
    \/ BulkAddRejected
    \/ (AuthenticatedView /\ \E ip \in {<<IpA>>} : handleRemoveDesignerIp(ip))
    \/ (AuthenticatedView /\ handleDeleteAllClick)
    \/ (AuthenticatedView /\ \E callback \in DeleteCallbacks : DeleteClick(callback))

SpecAuth == InitAuth /\ [][NextAuth]_vars

(* ===================== claims: the tabular codec ====================== *)

\* the display names a record's references resolve to
DeptNameOf(r) == NameOfId(departments, r.departmentId)
UserNameOf(r) == NameOfId(users, r.assigneeId)

\* a decoded record equals an event in title, calendar date, urgency and
\* resolved department and assignee names
SameRecord(ev, r) ==
    /\ r.title = ev.title
    /\ r.date.valid
    /\ LocalDay(r.date.time, tzOffset) = LocalDay(ev.date, tzOffset)
    /\ r.urgency = ev.urgency
    /\ DeptNameOf(r) = DeptNameOf(ev)
    /\ UserNameOf(r) = UserNameOf(ev)

RoundTripOk(evs, decoded) ==
    /\ Len(decoded) = Len(evs)
    /\ \A i \in 1..Len(evs) : SameRecord(evs[i], decoded[i])

\* C1: whenever handleImportCSV runs on the text handleExportCSV produced
\* for the current events, it hands onBulkAddEvents one record per event, in
\* order, equal to the event in title, calendar date, urgency and resolved
\* department and assignee names (the empty sequence included).
C1_RoundTrip ==
    [][(importText = ExportText(events, departments, users, tzOffset)
        /\ handleImportCSV)
       => (/\ Len(bulkCalls') = Len(bulkCalls) + 1
           /\ RoundTripOk(events, bulkCalls'[Len(bulkCalls')]))]_vars

\* the first physical line of the export after the header
FirstDataLine == Trim(Split(Trim(csvContent), NL)[2])

\* C2: the title field written by handleExportCSV for a title of ordinary
\* characters, commas and quotes is one field for parseCSVLine and cleans
\* up to the title: the exported line has six fields, the first is the
\* title, and the record handleImportCSV decodes from it carries the title.
C2_QuotingRoundTrip ==
    /\ (csvContent # UndefText /\ Len(events) = 1)
          => (/\ Len(parseCSVLine(FirstDataLine)) = 6
              /\ parseCSVLine(FirstDataLine)[1] = events[1].title)
    /\ \A k \in 1..Len(bulkCalls) :
          Len(events) = 1
          => (Len(bulkCalls[k]) = 1 /\ bulkCalls[k][1].title = events[1].title)

HasChar(s, c) == \E i \in 1..Len(s) : s[i] = c

\* a title with a comma next to a quote, and one of quotes only, was
\* exported and decoded
C2_Witness ==
    /\ Len(events) = 1
    /\ Len(bulkCalls) >= 1
    /\ events[1].title = <<QUOTE, COMMA, QUOTE>>
    /\ bulkCalls[1][1].title = <<QUOTE, COMMA, QUOTE>>

(* ====================== claims: the access table ====================== *)

DeptMap == ipConfig.departmentIps

\* handleAddIpMapping is given a batch with an address that has a mapping
ConflictingBatch ==
    /\ Trim(newMapIp) # <<>>
    /\ newMapDeptId # ""
    /\ \E ip \in Range(SplitIps(newMapIp)) : ip \in DOMAIN DeptMap

\* C3: when handleAddIpMapping is given a batch in which an address already
\* has a mapping, onUpdateIpConfig is not called, the table stays as it is
\* and no address of the batch that was unmapped becomes mapped.
C3_BatchRejectedWhole ==
    [][(ConflictingBatch /\ handleAddIpMapping)
       => (/\ ipUpdateCount' = ipUpdateCount
           /\ ipUpdateArg' = ipUpdateArg
           /\ ipConfig' = ipConfig
           /\ \A ip \in Range(SplitIps(newMapIp)) :
                ip \notin DOMAIN DeptMap => ip \notin DOMAIN DeptMap')]_vars

\* the batch "10.0.0.1, 10.0.0.2" was rejected with 10.0.0.1 mapped, and
\* 10.0.0.2 is not mapped
C3_Witness ==
    /\ newMapIp = <<IpA, COMMA, SP, IpB>>
    /\ error = ErrMapExists
    /\ <<IpA>> \in DOMAIN DeptMap
    /\ <<IpB>> \notin DOMAIN DeptMap

\* C4: a mapped address keeps its department in every step that is not
\* handleDeleteIpMapping of that address, and a handleAddIpMapping that
\* calls onUpdateIpConfig leaves every address of its batch mapped to the
\* selected department.
C4_NoOverwrite ==
    [][/\ \A a \in DOMAIN DeptMap :
            \/ (a \in DOMAIN DeptMap' /\ DeptMap'[a] = DeptMap[a])
            \/ handleDeleteIpMapping(a)
       /\ (handleAddIpMapping /\ ipUpdateCount' # ipUpdateCount)
            => \A ip \in Range(SplitIps(newMapIp)) :
                  ip \in DOMAIN DeptMap' /\ DeptMap'[ip] = newMapDeptId]_vars

\* two adds gave the two addresses different departments and a third add,
\* of a mapped address to another department, was rejected
C4_Witness ==
    /\ ipUpdateCount >= 2
    /\ DOMAIN DeptMap = {<<IpA>>, <<IpB>>}
    /\ DeptMap[<<IpA>>] = "d1"
    /\ DeptMap[<<IpB>>] = "d2"
    /\ error = ErrMapExists
    /\ newMapIp = <<IpA>>
    /\ newMapDeptId = "d2"

NoDuplicates(list) == \A i, j \in 1..Len(list) : i # j => list[i] # list[j]

\* C5: the elevated list never holds an address twice, and handleAddDesignerIp
\* of an address that is in the list calls nothing and leaves the list as
\* it is.
C5_ElevatedDistinct ==
    /\ []NoDuplicates(CurrentIps(ipConfig))
    /\ [][(newDesignerIp \in Range(CurrentIps(ipConfig)) /\ handleAddDesignerIp)
          => (/\ ipConfig' = ipConfig
              /\ ipUpdateCount' = ipUpdateCount
              /\ error' = ErrIpDuplicate)]_vars

\* with two addresses in the list, adding the first again was rejected
C5_Witness ==
    /\ Len(CurrentIps(ipConfig)) = 2
    /\ newDesignerIp = CurrentIps(ipConfig)[1]
    /\ error = ErrIpDuplicate

\* C6: a visitor's address is classified Elevated exactly when it is in
\* the elevated list (in the department map or not), DepartmentScoped with
\* the mapped department when it is in the map only, Unclassified otherwise.
C6_Classify ==
    [][(\E a \in VisitorAddresses : ClassifyVisitor(a))
       => LET a == visitorIp'
              inList == \E i \in 1..Len(CurrentIps(ipConfig)) :
                           CurrentIps(ipConfig)[i] = a
              inMap == a \in DOMAIN DeptMap
          IN  /\ inList => visitorTier' = Elevated
              /\ (~inList /\ inMap) => visitorTier' = DepartmentScoped(DeptMap[a])
              /\ (~inList /\ ~inMap) => visitorTier' = Unclassified
              /\ visitorTier' = Elevated => inList]_vars

\* an address that is in both parts of the table was classified Elevated
C6_Witness ==
    /\ visitorIp = <<IpA>>
    /\ visitorTier = Elevated
    /\ <<IpA>> \in Range(CurrentIps(ipConfig))
    /\ <<IpA>> \in DOMAIN DeptMap

\* the tables SpecAccess reaches are among those SpecClassify starts from
ReachableTablesCovered == ipConfig \in AccessTables

(* ==================== claims: the unread-state tracker ================ *)

\* the messages of anns that are unread for the viewer of session s, said
\* with calendar days
UnreadIds(s, anns) ==
    {anns[i].id : i \in {j \in 1..Len(anns) :
        /\ LocalDay(anns[j].createdAt, tzOffset) = LocalDay(now, tzOffset)
        /\ currentUserId[s] # NULL
        /\ \/ anns[j].readBy = NoReadBy
           \/ \A k \in 1..Len(anns[j].readBy) : anns[j].readBy[k] # currentUserId[s]}}

\* a step in which the open modal of session s renders
Rendered(s) ==
    \/ OpenModal(s)
    \/ \E b \in BOOLEAN : setIsAddMode(s, b)
    \/ (isOpen[s] /\ RefreshAnnouncements(s))

\* the onMarkAsRead calls of the step
NewCalls == {markCalls'[i] : i \in (Len(markCalls) + 1)..Len(markCalls')}

\* C7: in every render of the open modal the highlighted rows, the rows
\* with the 'YENI' badge and the messages the effect calls onMarkAsRead for
\* are the same: the messages created on the local calendar day of now whose
\* readBy (empty when missing) does not hold the viewer, and none when the
\* viewer is null.
C7_IsUnread ==
    [][\A s \in Sessions :
          Rendered(s)
          => LET unread == UnreadIds(s, announcements'[s])
             IN  /\ rowNew'[s] = unread
                 /\ badgeNew'[s] = unread
                 /\ NewCalls = {[session |-> s, id |-> m] : m \in unread}]_vars

\* session s1 shows m1 as new and has acknowledged it, and shows m2, unread
\* and less than a day old but of yesterday, as not new; session s2 has no
\* viewer and shows nothing as new
C7_Witness ==
    /\ isOpen["s1"] /\ isOpen["s2"]
    /\ currentUserId["s2"] = NULL
    /\ Len(announcements["s1"]) = 2
    /\ announcements["s1"][2].readBy = <<>>
    /\ now - announcements["s1"][2].createdAt < DayLen
    /\ LocalDay(announcements["s1"][2].createdAt, tzOffset) < LocalDay(now, tzOffset)
    /\ LocalDay(announcements["s1"][1].createdAt, tzOffset) = LocalDay(now, tzOffset)
    /\ rowNew["s1"] = {"m1"}
    /\ badgeNew["s1"] = {"m1"}
    /\ markCalls = <<[session |-> "s1", id |-> "m1"]>>
    /\ rowNew["s2"] = {}

\* C8: a render of the open modal that a state change of the modal causes,
\* with the announcements it had, calls onMarkAsRead for no (message,
\* viewer) pair it was called for before.
C8_OncePerMessage ==
    [][\A s \in Sessions :
          (\E b \in BOOLEAN : setIsAddMode(s, b))
          => \A c \in NewCalls : c \notin Range(markCalls)]_vars

\* what session s has of message m
CopyOf(s, m) ==
    {announcements[s][i] : i \in {j \in 1..Len(announcements[s]) :
                                    announcements[s][j].id = m}}

\* the viewer of session s is in the readBy session s has of message m
Acknowledged(s, m) ==
    \E a \in CopyOf(s, m) : currentUserId[s] \in Range(ReadByOf(a))

C10_ConcurrentAck ==
    /\ \A w \in pendingWrites : w.readBy = NoReplacement
    /\ \A i \in 1..Len(markCalls) :
         LET c == markCalls[i]
             v == currentUserId[c.session]
         IN  (/\ c.id \in DOMAIN annStore
              /\ \A w \in pendingWrites : ~(w.id = c.id /\ w.viewer = v))
             => v \in Range(ReadByOf(annStore[c.id]))

\* both viewers acknowledged m1, session s2 while it had m1 without any
\* readBy, and both are in the stored readBy
C10_Witness ==
    /\ [session |-> "s1", id |-> "m1"] \in Range(markCalls)
    /\ [session |-> "s2", id |-> "m1"] \in Range(markCalls)
    /\ pendingWrites = {}
    /\ Range(annStore["m1"].readBy) = {"v1", "v2"}
    /\ Len(annStore["m1"].readBy) = 2
    /\ announcements["s2"][1].readBy = NoReadBy

(* ================ claims: decoding of pasted text ===================== *)

\* the lines of the text after the first
DataLines(text) == Tail(Split(Trim(text), NL))

\* the line has at least three fields
HasThreeFields(l) == Len(parseCSVLine(Trim(l))) >= 3

\* a step of handleImportCSV that reaches the loop
Decodes ==
    /\ handleImportCSV
    /\ Trim(importText) # <<>>
    /\ Len(Split(Trim(importText), NL)) >= 2

\* the records handed to onBulkAddEvents in the step
Decoded == bulkCalls'[Len(bulkCalls')]

\* C11: when handleImportCSV decodes a text, the records it hands over are
\* those of the lines after the first that have at least three fields, one
\* per line and in the order of the lines; a line with fewer fields gives no
\* record, and the error message is not touched.
C11_SkipRule ==
    [][Decodes
       => LET kept == SelectSeq(DataLines(importText), HasThreeFields)
          IN  /\ Len(bulkCalls') = Len(bulkCalls) + 1
              /\ Len(Decoded) = Len(kept)
              /\ \A k \in 1..Len(kept) :
                    Decoded[k] = DecodeCols(parseCSVLine(Trim(kept[k])),
                                            departments, users)
              /\ error' = error]_vars

\* a line of two fields between two lines of six: two records, no error
C11_Witness ==
    /\ importText = HeaderLine \o <<NL>> \o JoinLines(<<LineOk, LineTwoFields, LineOtherCase>>)
    /\ Len(bulkCalls) = 1
    /\ Len(bulkCalls[1]) = 2
    /\ bulkCalls[1][1].title = <<"a">>
    /\ bulkCalls[1][2].title = <<"i">>
    /\ error = ErrNone

\* C12: every record handed to onBulkAddEvents has an urgency of the level
\* set.
C12_UrgencyKnown ==
    \A c \in 1..Len(bulkCalls) : \A k \in 1..Len(bulkCalls[c]) :
        bulkCalls[c][k].urgency \in UrgencyLevels

(* ================= claims: the handlers of AdminModal ================= *)

\* no callback of the parent is called in the step and nothing the
\* callbacks write changes
NoCallback ==
    /\ ipUpdateCount' = ipUpdateCount
    /\ ipUpdateArg' = ipUpdateArg
    /\ ipConfig' = ipConfig
    /\ bulkCalls' = bulkCalls
    /\ bulkPending' = bulkPending
    /\ addUserCalls' = addUserCalls
    /\ isUploading' = isUploading
    /\ uploadPending' = uploadPending
    /\ addDeptCalls' = addDeptCalls

Blank(t) == \A i \in 1..Len(t) : t[i] \in {SP, NL}

\* C13: a handler given an empty required field, an elevated address that
\* is in the list, a batch with a mapped address, an empty import text or
\* an import text of one line sets its error message and calls none of
\* onUpdateIpConfig, onBulkAddEvents, onAddUser, onAddDepartment.
C13_ValidationNoMutation ==
    [][/\ (handleAddDesignerIp /\ Blank(newDesignerIp))
            => (error' = ErrIpEmpty /\ NoCallback)
       /\ (handleAddDesignerIp /\ ~Blank(newDesignerIp)
             /\ \E i \in 1..Len(CurrentIps(ipConfig)) :
                   CurrentIps(ipConfig)[i] = newDesignerIp)
            => (error' = ErrIpDuplicate /\ NoCallback)
       /\ (handleAddIpMapping /\ (Blank(newMapIp) \/ newMapDeptId = ""))
            => (error' = ErrMapMissing /\ NoCallback)
       /\ (handleAddIpMapping /\ ConflictingBatch)
            => (error' = ErrMapExists /\ NoCallback)
       /\ (handleImportCSV /\ Blank(importText))
            => (error' = ErrImportEmpty /\ NoCallback)
       /\ (handleImportCSV /\ ~Blank(importText)
             /\ ~HasChar(Trim(importText), NL))
            => (error' = ErrImportHeaderOnly /\ NoCallback)
       /\ (handleAddSubmit /\ (Blank(newName) \/ Blank(newEmail)))
            => (error' = ErrUserFields /\ NoCallback)
       /\ (handleAddDeptSubmit /\ Blank(newDeptName))
            => (error' = ErrDeptEmpty /\ NoCallback)]_vars

\* the batch "10.0.0.1,10.0.0.2" was rejected for 10.0.0.1, which is mapped,
\* with no call of onUpdateIpConfig
C13_Witness ==
    /\ error = ErrMapExists
    /\ newMapIp = <<IpA, COMMA, IpB>>
    /\ newMapDeptId = "d2"
    /\ ipUpdateCount = 0
    /\ DOMAIN ipConfig.departmentIps = {<<IpA>>}

\* C14: when the write behind onBulkAddEvents, onAddUser or onUpdateIpConfig
\* fails, a message is shown and what the actor typed stays in the form.
C14_FailureKeepsForm ==
    [][/\ BulkAddRejected => (error' = ErrImportFailed /\ importText' = importText)
       /\ (AddUserRejected \/ UploadRejected)
            => (/\ error' = ErrAddUserFailed
                /\ <<newName, newEmail, selectedEmoji, avatarFile>>'
                     = <<newName, newEmail, selectedEmoji, avatarFile>>)
       /\ ((handleAddDesignerIp \/ handleAddIpMapping)
             /\ ipUpdateCount' # ipUpdateCount /\ ipWriteFails)
            => (/\ error' # ErrNone
                /\ <<newDesignerIp, newMapIp, newMapDeptId>>'
                     = <<newDesignerIp, newMapIp, newMapDeptId>>)]_vars

\* the list without its i-th element
DropAt(list, i) == SubSeq(list, 1, i - 1) \o SubSeq(list, i + 1, Len(list))

\* C15: when the write succeeds, handleRemoveDesignerIp of an address that
\* is not in the elevated list leaves the list (same addresses, same order)
\* and the map as they are, and of an address in the list takes out that
\* address only; handleDeleteIpMapping of an address that is not mapped
\* leaves the table as it is, and of a mapped address takes out that mapping
\* only.
C15_RemoveFrame ==
    [][\A ip \in RemovedAddresses :
          /\ (handleRemoveDesignerIp(ip) /\ ~ipWriteFails)
               => LET list == CurrentIps(ipConfig)
                  IN  /\ ipConfig'.departmentIps = ipConfig.departmentIps
                      /\ (\A i \in 1..Len(list) : list[i] # ip)
                            => CurrentIps(ipConfig') = list
                      /\ \A i \in 1..Len(list) :
                            list[i] = ip => CurrentIps(ipConfig') = DropAt(list, i)
          /\ (handleDeleteIpMapping(ip) /\ ~ipWriteFails)
               => /\ ipConfig'.designerIps = ipConfig.designerIps
                  /\ DOMAIN ipConfig'.departmentIps = DOMAIN ipConfig.departmentIps \ {ip}
                  /\ \A a \in DOMAIN ipConfig'.departmentIps :
                        ipConfig'.departmentIps[a] = ipConfig.departmentIps[a]]_vars

\* one remove was called on a table with no address in it, the write
\* succeeded, and the table has no address in it
C15_Witness ==
    /\ ipUpdateCount = 1
    /\ ~ipWriteFails
    /\ newDesignerIp = <<IpA>>
    /\ newMapIp = <<IpA>>
    /\ newMapDeptId = "d1"
    /\ error = ErrNone
    /\ ipConfig = [designerIps |-> <<>>, departmentIps |-> EmptyMap]

\* C16: handleAddSubmit with a name and an e-mail but neither an emoji nor
\* a file sets its error message and does not call onAddUser; every
\* onAddUser call is made with an emoji or a file picked and carries an
\* emoji that is not empty or an avatar URL that is not empty.
C16_AvatarNeverMissing ==
    /\ [](\A c \in 1..Len(addUserCalls) :
             addUserCalls[c].emoji # "" \/ addUserCalls[c].avatarUrl # EmptyText)
    /\ [][/\ (handleAddSubmit /\ selectedEmoji = "" /\ avatarFile = NoFile)
               => (error' \in {ErrUserFields, ErrUserAvatar} /\ NoCallback)
          /\ ((handleAddSubmit \/ UploadResolved) /\ addUserCalls' # addUserCalls)
               => /\ selectedEmoji # "" \/ avatarFile # NoFile
                  /\ selectedEmoji # ""
                       => addUserCalls'[Len(addUserCalls')].emoji = selectedEmoji
                  /\ avatarFile # NoFile
                       => addUserCalls'[Len(addUserCalls')].avatarUrl # EmptyText]_vars

\* a submission with a name and an e-mail and no avatar was rejected
C16_Witness ==
    /\ newName = <<"n">>
    /\ newEmail = <<"n">>
    /\ selectedEmoji = ""
    /\ avatarFile = NoFile
    /\ error = ErrUserAvatar
    /\ addUserCalls = <<>>

(* ======================= claims: encode / decode ====================== *)

\* the lines of the exported text
ExportedLines == Split(csvContent, NL)

\* C17: the exported text is the header line and one line per event, in the
\* order of the events, each of six fields: title, date, urgency,
\* description, department name, assignee name; it has 1 + Len(events)
\* lines, each ended by a line break.
C17_ExportShape ==
    csvContent # UndefText
    => /\ Len(ExportedLines) = Len(events) + 2
       /\ ExportedLines[Len(ExportedLines)] = <<>>
       /\ ExportedLines[1] = HeaderLine
       /\ \A k \in 1..Len(events) :
            LET f == parseCSVLine(ExportedLines[k + 1])
            IN  /\ Len(f) = 6
                /\ f[1] = events[k].title
                /\ f[2] = FormatDate(events[k].date, tzOffset)
                /\ f[3] = <<events[k].urgency>>
                /\ f[4] = (IF events[k].description = UndefText THEN <<>>
                           ELSE events[k].description)

\* the name of the entity of the identifier, or nothing
CurrentName(list, id) ==
    IF \E i \in 1..Len(list) : list[i].id = id
    THEN (CHOOSE e \in Range(list) : e.id = id).name
    ELSE <<>>

\* C18: in the exported text the fifth and sixth field of the line of an
\* event are the names the department and the user of the event's
\* identifiers have in the current lists, and empty when the event has no
\* identifier or one that is in no list; the identifier is not written.
C18_ExportNames ==
    csvContent # UndefText
    => \A k \in 1..Len(events) :
         LET f == parseCSVLine(ExportedLines[k + 1])
         IN  /\ Len(f) = 6
             /\ f[5] = CurrentName(departments, events[k].departmentId)
             /\ f[6] = CurrentName(users, events[k].assigneeId)
             /\ f[5] # <<events[k].departmentId>>
             /\ f[6] # <<events[k].assigneeId>>

\* exported: an event of the renamed department d1 and of a user that is
\* in no list, and an event of no department
C18_Witness ==
    /\ csvContent # UndefText
    /\ departments = DepartmentsLater
    /\ Len(events) = 2
    /\ events[1].departmentId = "d1" /\ events[1].assigneeId = "u9"
    /\ events[2].departmentId = UNDEF /\ events[2].assigneeId = "u1"
    /\ parseCSVLine(ExportedLines[2])[5] = <<"M">>
    /\ parseCSVLine(ExportedLines[2])[6] = <<>>
    /\ parseCSVLine(ExportedLines[3])[5] = <<>>

\* the identifier a name field stands for: that of the first entity of
\* exactly that name, none when there is no such entity or no field
FirstOfName(list, cols, k) ==
    IF k <= Len(cols) /\ \E i \in 1..Len(list) : list[i].name = cols[k]
    THEN LET first == CHOOSE i \in 1..Len(list) :
                         /\ list[i].name = cols[k]
                         /\ \A j \in 1..Len(list) : list[j].name = cols[k] => i <= j
         IN  list[first].id
    ELSE UNDEF

\* C19: the department and the assignee of a decoded record are the
\* identifiers of the first department and user whose name is the fifth and
\* the sixth field of the line, letter for letter; when there is none, or
\* no such field, the record has no department or assignee, and the line
\* gives a record all the same.
C19_DecodeNames ==
    [][Decodes
       => LET kept == SelectSeq(DataLines(importText), HasThreeFields)
          IN  /\ Len(Decoded) = Len(kept)
              /\ \A k \in 1..Len(kept) :
                    LET cols == parseCSVLine(Trim(kept[k]))
                    IN  /\ Decoded[k].departmentId = FirstOfName(departments, cols, 5)
                        /\ Decoded[k].assigneeId = FirstOfName(users, cols, 6)]_vars

\* decoded: "H", the name of d1 and d2, gave d1; "h" and " H" gave no
\* department; a line of three fields gave no department and no assignee
C19_Witness ==
    /\ importText = HeaderLine \o <<NL>>
                     \o JoinLines(<<LineOk, LineOtherCase, LineSpacedName>>)
    /\ Len(bulkCalls) = 1
    /\ Len(bulkCalls[1]) = 3
    /\ bulkCalls[1][1].departmentId = "d1" /\ bulkCalls[1][1].assigneeId = "u1"
    /\ bulkCalls[1][2].departmentId = UNDEF /\ bulkCalls[1][2].assigneeId = UNDEF
    /\ bulkCalls[1][3].departmentId = UNDEF /\ bulkCalls[1][3].assigneeId = "u1"

RECURSIVE CommasOutsideQuotes(_, _)
\* the number of commas of the line that are not between quotes
CommasOutsideQuotes(line, inQuotes) ==
    IF line = <<>> THEN 0
    ELSE IF Head(line) = QUOTE THEN CommasOutsideQuotes(Tail(line), ~inQuotes)
    ELSE (IF Head(line) = COMMA /\ ~inQuotes THEN 1 ELSE 0)
         + CommasOutsideQuotes(Tail(line), inQuotes)

\* the line is not blank and has at least three fields
IsRecordLine(l) == CommasOutsideQuotes(Trim(l), FALSE) >= 2

\* C20: when handleImportCSV decodes a text, onBulkAddEvents is called once,
\* with one record for every line after the first that has at least three
\* fields, in the order of the lines and with the title of the line, also
\* when the date of the line is no date (the record then has an invalid
\* date), its urgency is no level or its names are of no entity; the error
\* message is not touched, and it is cleared when the call resolves.
C20_SoftErrorsTolerated ==
    [][/\ Decodes
            => LET kept == SelectSeq(DataLines(importText), IsRecordLine)
               IN  /\ Len(bulkCalls') = Len(bulkCalls) + 1
                   /\ Len(Decoded) = Len(kept)
                   /\ \A k \in 1..Len(kept) :
                         LET cols == parseCSVLine(Trim(kept[k]))
                         IN  /\ Decoded[k].title = cols[1]
                             /\ Decoded[k].date.valid = IsDateText(cols[2])
                   /\ error' = error
       /\ BulkAddResolved => error' = ErrNone]_vars

\* decoded in one call: a line with a date that is no date, a line with an
\* urgency that is no level and a line with names of no entity
C20_Witness ==
    /\ importText = HeaderLine \o <<NL>>
                     \o JoinLines(<<LineBadDate, LineUnknownUrgency, LineOtherCase>>)
    /\ Len(bulkCalls) = 1
    /\ bulkPending = 1
    /\ Len(bulkCalls[1]) = 3
    /\ bulkCalls[1][1].title = <<"h">> /\ ~bulkCalls[1][1].date.valid
    /\ bulkCalls[1][2].title = <<"e">> /\ bulkCalls[1][2].urgency = "Medium"
    /\ bulkCalls[1][3].title = <<"i">> /\ bulkCalls[1][3].departmentId = UNDEF
    /\ error = ErrNone

(* ================= claims: the first line of the import =============== *)

\* the number of lines of the sequence, from the second on, that are not
\* blank and have at least three fields
RowsAfterFirst(lines) ==
    Cardinality({k \in 2..Len(lines) : IsRecordLine(lines[k])})

\* C21: when handleImportCSV decodes a text, whatever the first line of the
\* text is, a row of data included, the error message is not touched, one
\* call is made, and the records are as many as the rows after the first
\* line of the text without its surrounding white space, and no more than
\* the rows after the first line of the text as typed: the first line
\* gives no record.
C21_HeaderSkipped ==
    [][Decodes
       => /\ Len(bulkCalls') = Len(bulkCalls) + 1
          /\ error' = error
          /\ Len(Decoded) = RowsAfterFirst(Split(Trim(importText), NL))
          /\ Len(Decoded) <= RowsAfterFirst(Split(importText, NL))]_vars

\* decoded: a text of two rows and no header gave the record of the second
\* row only, and no error
C21_Witness ==
    /\ importText = JoinLines(<<LineOk, LineOtherCase>>)
    /\ Len(bulkCalls) = 1
    /\ Len(bulkCalls[1]) = 1
    /\ bulkCalls[1][1].title = <<"i">>
    /\ error = ErrNone

(* ============= claims: the access table, refreshed later ============== *)

\* the addresses of a table: the elevated ones and the mapped ones
ElevatedOf(config) == Range(CurrentIps(config))
MappedOf(config) == DOMAIN config.departmentIps

\* C22: with a parent that renders the new table some time after
\* onUpdateIpConfig returned, and additions only, every table passed to
\* onUpdateIpConfig holds the addresses of the table passed before it, so
\* the last table holds every address that was added.
C22_NoLostAddition ==
    [][ipUpdateCount' > ipUpdateCount
       => /\ ElevatedOf(ipUpdateArg) \subseteq ElevatedOf(ipUpdateArg')
          /\ MappedOf(ipUpdateArg) \subseteq MappedOf(ipUpdateArg')]_vars

(* ============== claims: the two parts of the access table ============= *)

\* a step in which a handler of the elevated list calls onUpdateIpConfig
ElevatedListCall ==
    /\ ipUpdateCount' > ipUpdateCount
    /\ \/ handleAddDesignerIp
       \/ \E ip \in Range(CurrentIps(ipConfig)) : handleRemoveDesignerIp(ip)

\* a step in which a handler of the department map calls onUpdateIpConfig
DepartmentMapCall ==
    /\ ipUpdateCount' > ipUpdateCount
    /\ \/ handleAddIpMapping
       \/ \E ip \in DOMAIN ipConfig.departmentIps : handleDeleteIpMapping(ip)

\* C23: handleAddDesignerIp and handleRemoveDesignerIp pass onUpdateIpConfig
\* a table with the department map of ipConfig; handleAddIpMapping and
\* handleDeleteIpMapping pass it a table with the elevated list of ipConfig.
C23_PartsIndependent ==
    [][/\ ElevatedListCall => ipUpdateArg'.departmentIps = ipConfig.departmentIps
       /\ DepartmentMapCall => ipUpdateArg'.designerIps = ipConfig.designerIps]_vars

\* after two additions the same two addresses are elevated and mapped
C23_Witness ==
    /\ ipUpdateCount = 2
    /\ ipUpdateArg = ipConfig
    /\ ElevatedOf(ipConfig) = {<<IpA>>, <<IpB>>}
    /\ MappedOf(ipConfig) = {<<IpA>>, <<IpB>>}

(* ================= claims: the delete-all button ====================== *)

\* C24: onDeleteAllEvents is called only by a click of the delete-all
\* button made while isDeleteConfirming is true, once per such click, and
\* the click sets the flag to false; a click made while the flag is false
\* sets the flag and calls nothing; the expiry of a timer calls nothing.
C24_TwoClicks ==
    [][/\ deleteAllCalls' # deleteAllCalls
            => /\ handleDeleteAllClick
               /\ isDeleteConfirming
               /\ ~isDeleteConfirming'
               /\ deleteAllCalls' = deleteAllCalls + 1
       /\ (handleDeleteAllClick /\ ~isDeleteConfirming)
            => (isDeleteConfirming' /\ deleteAllCalls' = deleteAllCalls)
       /\ (handleDeleteAllClick /\ isDeleteConfirming)
            => (~isDeleteConfirming' /\ deleteAllCalls' = deleteAllCalls + 1)]_vars

\* a first click more than three seconds ago was undone by its timer, and
\* two more clicks called onDeleteAllEvents once
C24_Witness ==
    /\ deleteAllCalls = 1
    /\ ~isDeleteConfirming
    /\ armedAt > ConfirmTimeout
    /\ deleteTimers = {armedAt + ConfirmTimeout}

\* C25: once a click has set isDeleteConfirming, the flag is cleared only by
\* the next click or when the three seconds of the timer of that click have
\* passed.
C25_ArmedForThreeSeconds ==
    [][(isDeleteConfirming /\ ~isDeleteConfirming')
       => (handleDeleteAllClick \/ clock >= armedAt + ConfirmTimeout)]_vars

(* ========================= claims: sign-in ============================ *)

\* a step in which AdminModal calls onAddUser, onBulkAddEvents,
\* onAddDepartment, onUpdateIpConfig, onDeleteAllEvents, onDeleteUser,
\* onDeleteDepartment or onDeleteEvent
CallbackCalled ==
    \/ addUserCalls' # addUserCalls
    \/ bulkCalls' # bulkCalls
    \/ addDeptCalls' # addDeptCalls
    \/ ipUpdateCount' # ipUpdateCount
    \/ deleteAllCalls' # deleteAllCalls
    \/ deleteCalls' # deleteCalls

\* C26: AdminModal calls none of its persistence callbacks while authUser
\* is null.
C26_AdminGating ==
    [][CallbackCalled => authUser # NULL]_vars

=============================================================================
